---- MODULE Spec2Model ----
(***************************************************************************)
(* Runtime simulation core of the roguelike: the bullet update protocol,   *)
(* the melee swing state machine with the katana's Slash accumulator, and  *)
(* the two-phase death of entities.                                        *)
(*                                                                         *)
(* Units.  Positions (Bullet.pos) are kept in 1/1000 pixel, directions     *)
(* (Bullet.dir) in 1/100, speeds in 1/10 and damage multipliers in 1/10,   *)
(* so that the float arithmetic of the source is exact integer arithmetic  *)
(* here: pos += dir * speed is  milli += centi * tenth.                    *)
(***************************************************************************)
EXTENDS Integers, Sequences, FiniteSets, TLC

VARIABLES
    bullet,        \* heap of Bullet objects: id -> fields
    bullets,       \* BulletManager.bullets: list of ids
    next_id,       \* next Bullet object to be constructed
    current_room,  \* world_manager.current_room
    switch_room,   \* world_manager.switch_room
    player,        \* game.player (hp, shield, hurt, hurt_timer, attacking, weapon, hitbox)
    enemy,         \* heap of Enemy objects: id -> fields
    enemy_list,    \* enemy_manager.enemy_list (copy of the current room's list)
    room_enemies,  \* current_room.enemy_list
    pc,            \* position inside BulletManager.update / Bullet.update
    it,            \* list iterator of  for bullet in self.bullets  (elements consumed)
    cur,           \* the bullet whose update() is running (self)
    now,           \* pygame.time.get_ticks(), in frames
    last,          \* what the last executed step saw and did (history)
    swing,         \* WeaponSwing: counter, angle, swing_side
    flipped,       \* parity of the horizontal flips of Weapon.original_image
    damage_enemies,\* Katana.damage_enemies: list of Slash records
    calls,         \* player_update calls of the running swing (history)
    wpc,           \* position inside the input -> enemies -> player part of a frame
    eit,           \* list iterator of  for enemy in current_room.enemy_list
    ecur,          \* the enemy whose update() is running
    hist,          \* per enemy: hits and multipliers applied by special_effect (history)
    done,          \* Game.update_groups: the categories updated so far in this tick (history)
    aim,           \* arguments of the last Bullet constructor call (history)
    obj,           \* an Object of a room: dropped flag, rect, Bounce, position in update_bounce
    entity,        \* an Entity: rect, hitbox, velocity, position in its update
    overlap,       \* the enemies whose mask the swung weapon overlapped in this frame (input)
    chest,         \* a Chest: open, animation_frame, items, and its room's objects list
    objects,       \* the objects of the rooms, player.items and ObjectManager.current_objects
    tick           \* update() calls made in the running pass, per bullet and per enemy (history)

vars == <<bullet, bullets, next_id, current_room, switch_room, player, enemy,
          enemy_list, room_enemies, pc, it, cur, now, last, swing, flipped,
          damage_enemies, calls, wpc, eit, ecur, hist, done, aim, obj, entity, overlap,
          chest, objects, tick>>

bulletVars == <<bullet, bullets, next_id, pc, it, cur>>
weaponVars == <<swing, flipped, damage_enemies, calls, wpc, eit, ecur, hist>>
lootVars == <<chest, objects, tick>>
frameVars == <<done, aim, obj, entity, overlap, lootVars>>

(***************************************************************************)
(* Bounds of the model                                                     *)
(***************************************************************************)
MaxBullets == 1      \* Bullet objects constructed in one run
MaxFrames == 2       \* frames of bullet updates simulated in one run
MaxMeleeFrames == 12 \* frames of enemy and weapon updates simulated in one run
MaxAim == 3          \* spawn positions and targets lie on a grid of (MaxAim + 1)^2 points
MaxBounceTicks == 80 \* update_bounce calls made on a dropped object in one run
MaxEntityFrames == 3 \* frames an entity is moved for

(***************************************************************************)
(* Program constants                                                       *)
(***************************************************************************)
ImpSpeed == 5
BossSpeed == 7
BulletSize == 7
BoundsX == 1300
BoundsY == 1000

Rooms == {1, 2}
BulletIds == 1 .. (MaxBullets + 1)
EnemyIds == {1, 2}

(***************************************************************************)
(* pygame.Rect                                                             *)
(***************************************************************************)
Rect(x, y, w, h) == [x |-> x, y |-> y, w |-> w, h |-> h]

colliderect(a, b) ==
    /\ a.w > 0 /\ a.h > 0 /\ b.w > 0 /\ b.h > 0
    /\ a.x < b.x + b.w
    /\ a.y < b.y + b.h
    /\ a.x + a.w > b.x
    /\ a.y + a.h > b.y

collidepoint(r, p) ==
    /\ p[1] >= r.x /\ p[1] < r.x + r.w
    /\ p[2] >= r.y /\ p[2] < r.y + r.h

midbottom(r) == <<r.x + (r.w \div 2), r.y + r.h>>
bottomleft(r) == <<r.x, r.y + r.h>>
bottomright(r) == <<r.x + r.w, r.y + r.h>>

\* Rect coordinates are C ints: a float assigned to rect.x is truncated toward zero.
Trunc(milli) == IF milli >= 0 THEN milli \div 1000 ELSE -((-milli) \div 1000)

BulletRect(b) == Rect(b.rect[1], b.rect[2], BulletSize, BulletSize)

(***************************************************************************)
(* The map of the scenario: a wall along the top of the room and a piece   *)
(* of wall under the player, who stands at (100,100); two enemies, whose   *)
(* hitboxes overlap, left of him.                                          *)
(***************************************************************************)
WallList == <<Rect(0, 0, 1300, 64), Rect(100, 150, 40, 10)>>
PlayerHitbox == Rect(100, 100, 40, 50)
EnemyHitbox(e) ==
    IF e = 1 THEN Rect(30 + enemy[e].moved, 100, 30, 50)
    ELSE Rect(50 + enemy[e].moved, 100, 30, 50)

(***************************************************************************)
(* Bullet construction                                                     *)
(***************************************************************************)
RECURSIVE SqrtSearch(_, _, _)
SqrtSearch(n, lo, hi) ==
    IF lo >= hi THEN lo
    ELSE LET mid == (lo + hi + 1) \div 2
         IN  IF mid * mid <= n THEN SqrtSearch(n, mid, hi)
             ELSE SqrtSearch(n, lo, mid - 1)

Abs(v) == IF v < 0 THEN -v ELSE v

\* math.hypot, in 1/100
Hypot100(vx, vy) ==
    LET n == 10000 * (vx * vx + vy * vy)
    IN  SqrtSearch(n, 0, 100 * (Abs(vx) + Abs(vy)))

RoundDiv(a, b) ==
    IF a >= 0 THEN (2 * a + b) \div (2 * b) ELSE -((2 * (-a) + b) \div (2 * b))

calculate_dir_Unscaled(vx, vy) == <<100 * vx, 100 * vy>>

\* Bullet.calculate_dir: dir / hypot(dir); defined only for a non-zero vector
calculate_dir(vx, vy) ==
    LET length == Hypot100(vx, vy)
    IN  <<RoundDiv(10000 * vx, length), RoundDiv(10000 * vy, length)>>

KindSpeed(kind) == IF kind = "imp" THEN 10 * ImpSpeed ELSE 10 * BossSpeed

NoBullet ==
    [made |-> FALSE, kind |-> "none", room |-> 0, pos |-> <<0, 0>>, rect |-> <<0, 0>>,
     dir |-> <<0, 0>>, speed |-> 0, damage |-> 0, bounce_back |-> TRUE]

\* Bullet.__init__ (with the subclass's speed and damage)
NewBullet(kind, room, x, y, target, damage) ==
    [made |-> TRUE, kind |-> kind, room |-> room,
     pos |-> <<1000 * x, 1000 * y>>, rect |-> <<x, y>>,
     dir |-> calculate_dir(target[1] - x, target[2] - y),
     speed |-> KindSpeed(kind), damage |-> damage, bounce_back |-> TRUE]

\* The shots of the scenario: kind, room, spawn position, target, the master's damage
Shots ==
    { [kind |-> "imp",  room |-> 1, x |-> 100,  y |-> 100, target |-> <<200, 100>>, damage |-> 10],
      [kind |-> "imp",  room |-> 1, x |-> 60,   y |-> 120, target |-> <<160, 120>>, damage |-> 10],
      [kind |-> "boss", room |-> 1, x |-> 148,  y |-> 120, target |-> <<48, 120>>, damage |-> 10],
      [kind |-> "imp",  room |-> 1, x |-> 2,    y |-> 500, target |-> <<-1, 496>>, damage |-> 10],
      [kind |-> "mg",   room |-> 1, x |-> 1298, y |-> 500, target |-> <<1398, 500>>, damage |-> 10],
      [kind |-> "mg",   room |-> 1, x |-> 90,   y |-> 120, target |-> <<190, 120>>, damage |-> 10],
      [kind |-> "boss", room |-> 1, x |-> 640,  y |-> 62,  target |-> <<640, 0>>, damage |-> 10],
      [kind |-> "imp",  room |-> 2, x |-> 90,   y |-> 120, target |-> <<190, 120>>, damage |-> 10] }

\* random.randint draws of Bullet.bounce: <<dir x jitter, dir y jitter, speed factor>>
ReflectDraws == { <<0, 0, 10>>, <<-20, 10, 15>>, <<10, -10, 20>> }

(***************************************************************************)
(* List helpers                                                            *)
(***************************************************************************)
InList(x, s) == \E k \in 1 .. Len(s) : s[k] = x

\* list.remove(x): the first occurrence
Remove(s, x) ==
    LET k == CHOOSE j \in 1 .. Len(s) : s[j] = x /\ \A m \in 1 .. (j - 1) : s[m] # x
    IN  SubSeq(s, 1, k - 1) \o SubSeq(s, k + 1, Len(s))

Kill_First(s, b) == IF s # <<>> THEN Tail(s) ELSE s

\* Bullet.kill: guarded by a membership test
Kill(s, b) == IF InList(b, s) THEN Remove(s, b) ELSE s

\* BulletManager.remove_bullets: removal while iterating the same list
RECURSIVE RemoveLoop(_, _, _, _)
RemoveLoop(s, i, heap, room) ==
    IF i >= Len(s) THEN s
    ELSE LET b == s[i + 1]
         IN  IF heap[b].room # room
             THEN RemoveLoop(Remove(s, b), i + 1, heap, room)
             ELSE RemoveLoop(s, i + 1, heap, room)

remove_bullets(s, heap, room) == RemoveLoop(s, 0, heap, room)

NoEvent == [op |-> "none", b |-> 0, hit |-> FALSE, pre_bb |-> TRUE, pre_shield |-> 0,
            pre_hp |-> 0, pre_in |-> FALSE]

Event(op, b, hit) ==
    [op |-> op, b |-> b, hit |-> hit, pre_bb |-> bullet[b].bounce_back,
     pre_shield |-> player.shield, pre_hp |-> player.hp, pre_in |-> InList(b, bullets)]

(***************************************************************************)
(* Entities                                                                *)
(***************************************************************************)
PlayerHp == 50
EnemyHp == 100
BossHp == 3000
DeathCounterInit == 2

NewPlayer(shield, weapon) ==
    [hp |-> PlayerHp, shield |-> shield, hurt |-> FALSE, hurt_timer |-> 0,
     attacking |-> FALSE, weapon |-> weapon, strength |-> 10, gold |-> 0,
     max_hp |-> PlayerHp]

NewEnemy(hp) ==
    [hp |-> hp, dead |-> FALSE, hurt |-> FALSE, hurt_timer |-> 0,
     weapon_hurt_cooldown |-> 0, death_counter |-> DeathCounterInit,
     can_move |-> TRUE, velocity |-> <<1, 0>>, animation_frame |-> 1, drops |-> 0,
     moved |-> 0]

(***************************************************************************)
(* Bullet.update, one step of the method per action                        *)
(***************************************************************************)
self == bullet[cur]

\* BulletManager.add_bullet(Bullet(...)): an enemy fires
AddBullet ==
    /\ pc = "idle"
    /\ next_id <= MaxBullets
    /\ \E s \in Shots :
          /\ <<s.x, s.y>> # s.target
          /\ bullet' = [bullet EXCEPT ![next_id] =
                           NewBullet(s.kind, s.room, s.x, s.y, s.target, s.damage)]
    /\ bullets' = Append(bullets, next_id)
    /\ next_id' = next_id + 1
    /\ last' = NoEvent
    /\ UNCHANGED <<current_room, switch_room, player, enemy, enemy_list, room_enemies,
                   pc, it, cur, now, weaponVars, frameVars>>

\* BulletManager.update: remove_bullets(), then the loop over self.bullets starts
BulletManagerUpdate ==
    /\ pc = "idle"
    /\ now < MaxFrames
    /\ bullets' = remove_bullets(bullets, bullet, current_room)
    /\ it' = 0
    /\ pc' = "next"
    /\ last' = NoEvent
    /\ tick' = [tick EXCEPT !.start = bullets', !.updated = <<>>]
    /\ UNCHANGED <<bullet, next_id, current_room, switch_room, player, enemy, enemy_list,
                   room_enemies, cur, now, weaponVars, done, aim, obj, entity, overlap, chest, objects>>

\* for bullet in self.bullets: the list iterator's next() returns a bullet
IterStep ==
    /\ pc = "next"
    /\ it < Len(bullets)
    /\ cur' = bullets[it + 1]
    /\ it' = it + 1
    /\ pc' = "move"
    /\ last' = NoEvent
    /\ tick' = [tick EXCEPT !.updated = Append(@, cur')]
    /\ UNCHANGED <<bullet, bullets, next_id, current_room, switch_room, player, enemy,
                   enemy_list, room_enemies, now, weaponVars, done, aim, obj, entity, overlap, chest, objects>>

\* for bullet in self.bullets: the list iterator is exhausted, the frame is over
IterEnd ==
    /\ pc = "next"
    /\ it >= Len(bullets)
    /\ cur' = 0
    /\ it' = 0
    /\ pc' = "idle"
    /\ now' = now + 1
    /\ last' = NoEvent
    /\ tick' = [tick EXCEPT !.start = <<>>, !.updated = <<>>]
    /\ UNCHANGED <<bullet, bullets, next_id, current_room, switch_room, player, enemy,
                   enemy_list, room_enemies, weaponVars, done, aim, obj, entity, overlap, chest, objects>>

\* for bullet in self.bullets
IterNext == IterStep \/ IterEnd

Moved_Unscaled(b) ==
    LET p == <<b.pos[1] + b.dir[1] * 10, b.pos[2] + b.dir[2] * 10>>
    IN  [b EXCEPT !.pos = p, !.rect = <<Trunc(p[1]), Trunc(p[2])>>]

\* Bullet.update_position, the new pos and rect
Moved(b) ==
    LET p == <<b.pos[1] + b.dir[1] * b.speed, b.pos[2] + b.dir[2] * b.speed>>
    IN  [b EXCEPT !.pos = p, !.rect = <<Trunc(p[1]), Trunc(p[2])>>]

NextStep_MgInherits(kind, step) ==
    IF step = "move" THEN "enemy"
    ELSE IF step = "enemy" THEN "player"
    ELSE IF step = "player" THEN "bounce"
    ELSE IF step = "bounce" THEN "bounds"
    ELSE IF step = "bounds" THEN "wall"
    ELSE "next"

NextStep_ParryFirst(kind, step) ==
    IF step = "move" THEN (IF kind = "mg" THEN "player" ELSE "enemy")
    ELSE IF step = "enemy" THEN "bounce"
    ELSE IF step = "bounce" THEN "player"
    ELSE IF step = "player" THEN "bounds"
    ELSE IF step = "bounds" THEN "wall"
    ELSE "next"

\* Bullet.update and MachineGunBullet.update: the statement that follows a statement
NextStep(kind, step) ==
    IF step = "move" THEN (IF kind = "mg" THEN "player" ELSE "enemy")
    ELSE IF step = "enemy" THEN "player"
    ELSE IF step = "player" THEN (IF kind = "mg" THEN "bounds" ELSE "bounce")
    ELSE IF step = "bounce" THEN "bounds"
    ELSE IF step = "bounds" THEN "wall"
    ELSE "next"

\* Bullet.update_position
update_position ==
    /\ pc = "move"
    /\ bullet' = [bullet EXCEPT ![cur] = IF self.room = current_room THEN Moved(self) ELSE self]
    /\ pc' = NextStep(self.kind, "move")
    /\ last' = Event("update_position", cur, self.room = current_room)
    /\ UNCHANGED <<bullets, next_id, current_room, switch_room, player, enemy, enemy_list,
                   room_enemies, it, cur, now, weaponVars, frameVars>>

FirstOverlap_Last(r, list) ==
    IF \E k \in 1 .. Len(list) : colliderect(r, EnemyHitbox(list[k]))
    THEN CHOOSE k \in 1 .. Len(list) :
            /\ colliderect(r, EnemyHitbox(list[k]))
            /\ \A m \in (k + 1) .. Len(list) : ~colliderect(r, EnemyHitbox(list[m]))
    ELSE 0

\* index of the first enemy of enemy_list whose hitbox the rect overlaps, 0 if none
FirstOverlap(r, list) ==
    IF \E k \in 1 .. Len(list) : colliderect(r, EnemyHitbox(list[k]))
    THEN CHOOSE k \in 1 .. Len(list) :
            /\ colliderect(r, EnemyHitbox(list[k]))
            /\ \A m \in 1 .. (k - 1) : ~colliderect(r, EnemyHitbox(list[m]))
    ELSE 0

ScanTarget_AnyBullet(b, list) == FirstOverlap(BulletRect(b), list)

\* Bullet.update: the enemy scan runs for a reflected bullet only; the index in
\* enemy_list of the enemy it hits, 0 if none
ScanTarget(b, list) ==
    IF b.bounce_back = FALSE THEN FirstOverlap(BulletRect(b), list) ELSE 0

\* Bullet.update, the scan of enemy_manager.enemy_list
enemy_scan ==
    /\ pc = "enemy"
    /\ LET k == ScanTarget(self, enemy_list)
       IN  /\ IF k # 0
              THEN /\ enemy' = [enemy EXCEPT ![enemy_list[k]].hp = @ - self.damage]
                   /\ bullets' = Kill(bullets, cur)
              ELSE UNCHANGED <<enemy, bullets>>
           /\ last' = Event("enemy_scan", cur, k # 0)
    /\ pc' = NextStep(self.kind, "enemy")
    /\ UNCHANGED <<bullet, next_id, current_room, switch_room, player, enemy_list,
                   room_enemies, it, cur, now, weaponVars, frameVars>>

PlayerHit_NoShield(p, damage, t) ==
    [p EXCEPT !.hp = @ - damage, !.hurt = TRUE, !.hurt_timer = t]

PlayerHit_NoHurt(p, damage, t) ==
    IF p.shield # 0
    THEN [p EXCEPT !.shield = @ - 1]
    ELSE [p EXCEPT !.hp = @ - damage]

PlayerHit_Unguarded(p, damage, t) ==
    IF p.shield # 0
    THEN [p EXCEPT !.shield = @ - 1]
    ELSE [p EXCEPT !.shield = @ - 1, !.hp = @ - damage, !.hurt = TRUE, !.hurt_timer = t]

\* Bullet.player_collision, the effect of a hit on the player
PlayerHit(p, damage, t) ==
    IF p.shield # 0
    THEN [p EXCEPT !.shield = @ - 1]
    ELSE [p EXCEPT !.hp = @ - damage, !.hurt = TRUE, !.hurt_timer = t]

PlayerStruck_InTransition(b, sw) == colliderect(BulletRect(b), PlayerHitbox)

\* Bullet.player_collision, its condition
PlayerStruck(b, sw) == colliderect(BulletRect(b), PlayerHitbox) /\ ~sw

\* Bullet.player_collision
player_collision ==
    /\ pc = "player"
    /\ LET hit == PlayerStruck(self, switch_room)
       IN  /\ IF hit
              THEN /\ player' = PlayerHit(player, self.damage, now)
                   /\ bullets' = Kill(bullets, cur)
              ELSE UNCHANGED <<player, bullets>>
           /\ last' = Event("player_collision", cur, hit)
    /\ pc' = NextStep(self.kind, "player")
    /\ UNCHANGED <<bullet, next_id, current_room, switch_room, enemy, enemy_list,
                   room_enemies, it, cur, now, weaponVars, frameVars>>

Reflected(b, d) ==
    [b EXCEPT !.dir = <<-b.dir[1] + d[1], -b.dir[2] + d[2]>>,
              !.speed = (b.speed * d[3]) \div 10,
              !.bounce_back = FALSE]

CanReflect_NoAttack(p, b, mask) ==
    p.weapon # "none" /\ mask /\ b.bounce_back

CanReflect_NoFlag(p, b, mask) ==
    p.weapon # "none" /\ p.attacking /\ mask

\* Bullet.bounce, its condition
CanReflect(p, b, mask) ==
    p.weapon # "none" /\ p.attacking /\ mask /\ b.bounce_back

\* Bullet.bounce; mask is the result of pygame.sprite.collide_mask(weapon, self)
bounce ==
    /\ pc = "bounce"
    /\ \E mask \in BOOLEAN, d \in ReflectDraws :
          /\ IF CanReflect(player, self, mask)
             THEN bullet' = [bullet EXCEPT ![cur] = Reflected(self, d)]
             ELSE /\ d = CHOOSE x \in ReflectDraws : TRUE
                  /\ UNCHANGED bullet
          /\ last' = Event("bounce", cur, mask)
    /\ pc' = NextStep(self.kind, "bounce")
    /\ UNCHANGED <<bullets, next_id, current_room, switch_room, player, enemy, enemy_list,
                   room_enemies, it, cur, now, weaponVars, frameVars>>

OutOfBounds_NoLeft(b) ==
    b.rect[2] < 0 \/ b.rect[2] > BoundsY \/ b.rect[1] > BoundsX

\* Bullet.update / MachineGunBullet.update, the bounds condition
OutOfBounds(b) ==
    b.rect[2] < 0 \/ b.rect[2] > BoundsY \/ b.rect[1] < 0 \/ b.rect[1] > BoundsX

\* Bullet.update, the bounds test
bounds_check ==
    /\ pc = "bounds"
    /\ bullets' = IF OutOfBounds(self) THEN Kill(bullets, cur) ELSE bullets
    /\ last' = Event("bounds_check", cur, OutOfBounds(self))
    /\ pc' = NextStep(self.kind, "bounds")
    /\ UNCHANGED <<bullet, next_id, current_room, switch_room, player, enemy, enemy_list,
                   room_enemies, it, cur, now, weaponVars, frameVars>>

HitsWall(r) ==
    \E k \in 1 .. Len(WallList) :
        \/ collidepoint(WallList[k], midbottom(r))
        \/ collidepoint(WallList[k], bottomleft(r))
        \/ collidepoint(WallList[k], bottomright(r))

\* Bullet.wall_collision
wall_collision ==
    /\ pc = "wall"
    /\ bullets' = IF HitsWall(BulletRect(self)) THEN Kill(bullets, cur) ELSE bullets
    /\ last' = Event("wall_collision", cur, HitsWall(BulletRect(self)))
    /\ pc' = NextStep(self.kind, "wall")
    /\ UNCHANGED <<bullet, next_id, current_room, switch_room, player, enemy, enemy_list,
                   room_enemies, it, cur, now, weaponVars, frameVars>>

\* Input handling between two frames: the attack button
PlayerInput ==
    /\ pc = "idle"
    /\ player' = [player EXCEPT !.attacking = ~@]
    /\ last' = NoEvent
    /\ UNCHANGED <<bullet, bullets, next_id, current_room, switch_room, enemy, enemy_list,
                   room_enemies, pc, it, cur, now, weaponVars, frameVars>>

\* world_manager.update: a room transition starts or ends
WorldUpdate ==
    /\ pc = "idle"
    /\ \E r \in Rooms, sw \in BOOLEAN :
          /\ <<r, sw>> # <<current_room, switch_room>>
          /\ current_room' = r
          /\ switch_room' = sw
    /\ last' = NoEvent
    /\ UNCHANGED <<bullet, bullets, next_id, player, enemy, enemy_list, room_enemies,
                   pc, it, cur, now, weaponVars, frameVars>>

\* Bounce.__init__ has not run: Object.bounce is None
NoBounce ==
    [made |-> FALSE, x |-> 0, y |-> 0, v |-> <<0, 0>>, elasticity |-> 0, limit |-> 0,
     size |-> 0]

\* Object.__init__: dropped False, bounce None; calls and steps count the
\* update_bounce calls and the integrator sub-steps made so far (history)
NoObject ==
    [dropped |-> FALSE, rect |-> <<0, 0>>, bounce |-> NoBounce, bpc |-> "idle", sub |-> 0,
     calls |-> 0, steps |-> 0, prev |-> NoBounce, settled |-> 0]

\* Chest.__init__ has not run
NoChest == [made |-> FALSE, open |-> FALSE, animation_frame |-> 0, items |-> <<>>,
            room_objects |-> <<>>, held |-> 0, dropped |-> {}, drops |-> 0]

ObjIds == 1 .. 7

\* Object.__init__ of the flasks, power-ups and katanas of the scenario: objects
\* 1 to 3 are a shop's goods, 4 to 6 lie in room 1, 7 lies in room 2
NewObject(o) ==
    [kind |-> IF o \in {1, 4} THEN "green" ELSE IF o = 2 THEN "red"
              ELSE IF o \in {3, 5} THEN "shield" ELSE "katana",
     value |-> IF o \in {1, 4} THEN 100 ELSE IF o = 2 THEN 400
               ELSE IF o \in {3, 5} THEN 150 ELSE 100,
     for_sale |-> o <= 3,
     room |-> IF o = 7 THEN 2 ELSE 1,
     interaction |-> FALSE]

\* no object lies in a room and the player carries none
NoObjects ==
    [made |-> FALSE, heap |-> [o \in ObjIds |-> NewObject(o)], rooms |-> [r \in Rooms |-> <<>>],
     items |-> <<>>, weapon |-> 0, current_objects |-> <<>>, next_room |-> 0,
     fresh |-> FALSE, raised |-> FALSE, bought |-> {}, refused |-> {}]

\* no pass runs: the bullets (enemies) in the list when the running pass began and
\* the bullets (enemies) whose update() the pass has called, in order
NoTick == [start |-> <<>>, updated |-> <<>>, estart |-> <<>>, eupdated |-> <<>>]

\* Entity.__init__ has not run
NoEntity ==
    [made |-> FALSE, rect |-> <<0, 0>>, hitbox |-> Rect(0, 0, 0, 0), velocity |-> <<0, 0>>,
     epc |-> "input", frames |-> 0, pre |-> <<0, 0>>, walled |-> FALSE]

NoAim == [kind |-> "none", x |-> 0, y |-> 0, target |-> <<0, 0>>, rotation |-> 0,
          raised |-> FALSE]

NoHist ==
    [hits |-> [e \in EnemyIds |-> 0], total |-> [e \in EnemyIds |-> 0],
     applied |-> [e \in EnemyIds |-> 0], first |-> [e \in EnemyIds |-> 0],
     mode |-> "none", reset |-> FALSE, swings |-> 0, removed |-> 0, death |-> "none"]

InitBullet ==
    /\ bullet = [b \in BulletIds |-> NoBullet]
    /\ bullets = <<>>
    /\ next_id = 1
    /\ current_room = 1
    /\ switch_room = FALSE
    /\ \E sh \in {0, 2}, w \in {"none", "katana"} : player = NewPlayer(sh, w)
    /\ enemy = [e \in EnemyIds |-> NewEnemy(EnemyHp)]
    /\ enemy_list = <<1, 2>>
    /\ room_enemies = <<1, 2>>
    /\ pc = "idle"
    /\ it = 0
    /\ cur = 0
    /\ now = 0
    /\ last = NoEvent
    /\ swing = [counter |-> 0, angle |-> 0, swing_side |-> 1]
    /\ flipped = FALSE
    /\ damage_enemies = <<>>
    /\ calls = 0
    /\ wpc = "idle"
    /\ eit = 0
    /\ ecur = 0
    /\ hist = NoHist
    /\ done = <<>>
    /\ aim = NoAim
    /\ obj = NoObject
    /\ entity = NoEntity
    /\ overlap = {}
    /\ chest = NoChest
    /\ objects = NoObjects
    /\ tick = NoTick

NextBullet ==
    \/ AddBullet
    \/ BulletManagerUpdate
    \/ IterNext
    \/ update_position
    \/ enemy_scan
    \/ player_collision
    \/ bounce
    \/ bounds_check
    \/ wall_collision
    \/ PlayerInput
    \/ WorldUpdate

SpecBullet == InitBullet /\ [][NextBullet]_vars

\* an enemy the katana has killed and detect_death has flagged: it stays in
\* its room's enemy_list until its death_counter has run out
DeadEnemy ==
    [NewEnemy(EnemyHp - 1000) EXCEPT !.dead = TRUE, !.can_move = FALSE,
                                     !.velocity = <<0, 0>>, !.animation_frame = 0,
                                     !.hurt = TRUE]

\* the bullet frames in a room where enemy 1 lies dead
InitCorpse ==
    /\ bullet = [b \in BulletIds |-> NoBullet]
    /\ bullets = <<>>
    /\ next_id = 1
    /\ current_room = 1
    /\ switch_room = FALSE
    /\ \E sh \in {0, 2} : player = NewPlayer(sh, "katana")
    /\ enemy = [e \in EnemyIds |-> IF e = 1 THEN DeadEnemy ELSE NewEnemy(EnemyHp)]
    /\ enemy_list = <<1, 2>>
    /\ room_enemies = <<1, 2>>
    /\ pc = "idle"
    /\ it = 0
    /\ cur = 0
    /\ now = 0
    /\ last = NoEvent
    /\ swing = [counter |-> 0, angle |-> 0, swing_side |-> 1]
    /\ flipped = FALSE
    /\ damage_enemies = <<>>
    /\ calls = 0
    /\ wpc = "idle"
    /\ eit = 0
    /\ ecur = 0
    /\ hist = NoHist
    /\ done = <<>>
    /\ aim = NoAim
    /\ obj = NoObject
    /\ entity = NoEntity
    /\ overlap = {}
    /\ chest = NoChest
    /\ objects = NoObjects
    /\ tick = NoTick

SpecCorpse == InitCorpse /\ [][NextBullet]_vars

\* the bullet frames in a room where enemy 2 has walked 45 pixels towards the
\* player: its hitbox overlaps his
InitClose ==
    /\ bullet = [b \in BulletIds |-> NoBullet]
    /\ bullets = <<>>
    /\ next_id = 1
    /\ current_room = 1
    /\ switch_room = FALSE
    /\ \E sh \in {0, 2} : player = NewPlayer(sh, "katana")
    /\ enemy = [e \in EnemyIds |->
                   IF e = 2 THEN [NewEnemy(EnemyHp) EXCEPT !.moved = 45]
                   ELSE NewEnemy(EnemyHp)]
    /\ enemy_list = <<1, 2>>
    /\ room_enemies = <<1, 2>>
    /\ pc = "idle"
    /\ it = 0
    /\ cur = 0
    /\ now = 0
    /\ last = NoEvent
    /\ swing = [counter |-> 0, angle |-> 0, swing_side |-> 1]
    /\ flipped = FALSE
    /\ damage_enemies = <<>>
    /\ calls = 0
    /\ wpc = "idle"
    /\ eit = 0
    /\ ecur = 0
    /\ hist = NoHist
    /\ done = <<>>
    /\ aim = NoAim
    /\ obj = NoObject
    /\ entity = NoEntity
    /\ overlap = {}
    /\ chest = NoChest
    /\ objects = NoObjects
    /\ tick = NoTick

SpecClose == InitClose /\ [][NextBullet]_vars

(***************************************************************************)
(* Enemies: EnemyManager.update_enemies and Entity.basic_update            *)
(***************************************************************************)

\* EnemyManager.update_enemies: set_enemy_list(), then the loop over the room's list starts
update_enemies ==
    /\ wpc = "enemies"
    /\ enemy_list' = room_enemies
    /\ eit' = 0
    /\ wpc' = "eloop"
    /\ tick' = [tick EXCEPT !.estart = room_enemies, !.eupdated = <<>>]
    /\ UNCHANGED <<done, aim, obj, entity, overlap, chest, objects, bulletVars, current_room, switch_room, player, enemy,
                   room_enemies, now, last, swing, flipped, damage_enemies, calls, ecur, hist>>

\* for enemy in current_room.enemy_list: the list iterator's next() returns an enemy
EnemyIterStep ==
    /\ wpc = "eloop"
    /\ eit < Len(room_enemies)
    /\ ecur' = room_enemies[eit + 1]
    /\ eit' = eit + 1
    /\ wpc' = "eupdate"
    /\ tick' = [tick EXCEPT !.eupdated = Append(@, ecur')]
    /\ UNCHANGED <<done, aim, obj, entity, overlap, chest, objects, bulletVars, current_room, switch_room, player, enemy,
                   enemy_list, room_enemies, now, last, swing, flipped, damage_enemies, calls,
                   hist>>

\* for enemy in current_room.enemy_list: the list iterator is exhausted
EnemyIterEnd ==
    /\ wpc = "eloop"
    /\ eit >= Len(room_enemies)
    /\ ecur' = 0
    /\ eit' = 0
    /\ wpc' = "player"
    /\ tick' = [tick EXCEPT !.estart = <<>>, !.eupdated = <<>>]
    /\ UNCHANGED <<done, aim, obj, entity, overlap, chest, objects, bulletVars, current_room, switch_room, player, enemy,
                   enemy_list, room_enemies, now, last, swing, flipped, damage_enemies, calls,
                   hist>>

\* for enemy in current_room.enemy_list
EnemyIterNext == EnemyIterStep \/ EnemyIterEnd

DeathFlagged_Never(e) == e

DeathFlagged_Unguarded(e) ==
    IF e.hp <= 0
    THEN [e EXCEPT !.dead = TRUE, !.animation_frame = 0, !.can_move = FALSE,
                   !.velocity = <<0, 0>>]
    ELSE e

\* Entity.detect_death, first test: hp <= 0 and not yet dead
DeathFlagged(e) ==
    IF e.hp <= 0 /\ e.dead = FALSE
    THEN [e EXCEPT !.dead = TRUE, !.animation_frame = 0, !.can_move = FALSE,
                   !.velocity = <<0, 0>>]
    ELSE e

DeathDue_OnHp(e) == e.hp <= 0

\* Entity.detect_death, second test: the death counter has run out
DeathDue(e) == e.death_counter = 0

\* EntityAnimation.update: a dead entity's death animation runs the death counter
\* down; a living entity's animation cycles
AnimationUpdate(e) ==
    IF e.dead
    THEN [e EXCEPT !.animation_frame = @ + 1,
                   !.death_counter = IF @ > 0 THEN @ - 1 ELSE 0]
    ELSE [e EXCEPT !.animation_frame = IF @ = 1 THEN 2 ELSE 1]

\* Entity.detect_death, the first statement of Entity.basic_update
detect_death ==
    /\ wpc = "eupdate"
    /\ LET e0 == enemy[ecur]
           e1 == DeathFlagged(e0)
           due == DeathDue(e1)
       IN  /\ enemy' = [enemy EXCEPT ![ecur] = IF due THEN [e1 EXCEPT !.drops = @ + 1] ELSE e1]
           /\ room_enemies' = IF due THEN Remove(room_enemies, ecur) ELSE room_enemies
           /\ hist' = [hist EXCEPT !.removed = IF due THEN ecur ELSE 0,
                                   !.death = IF e0.dead THEN "already"
                                             ELSE IF e0.hp <= 0 THEN "flagged" ELSE "alive"]
    /\ wpc' = "eanim"
    /\ UNCHANGED <<frameVars, bulletVars, current_room, switch_room, player, enemy_list, now, last,
                   swing, flipped, damage_enemies, calls, eit, ecur>>

\* Entity.basic_update after detect_death: the animation update (hitbox and rect
\* moves left out)
basic_update ==
    /\ wpc = "eanim"
    /\ enemy' = [enemy EXCEPT ![ecur] = AnimationUpdate(enemy[ecur])]
    /\ wpc' = "eloop"
    /\ UNCHANGED <<frameVars, bulletVars, current_room, switch_room, player, enemy_list,
                   room_enemies, now, last, swing, flipped, damage_enemies, calls, eit, ecur,
                   hist>>

(***************************************************************************)
(* WeaponSwing and Katana                                                  *)
(***************************************************************************)
KatanaDamage == 1000
LeftSwing == 10
RightSwing == -190
SwingStep == 20
SwingFrames == 10
HitCooldown == 1

\* pointer positions relative to the player's hitbox centre: right of it, above it
PointerDirs == {<<1, 0>>, <<0, -1>>}

\* (180 / pi) * atan2(y, x) on the axes
Atan2Deg(y, x) ==
    IF y = 0 THEN (IF x >= 0 THEN 0 ELSE 180)
    ELSE IF y > 0 THEN 90 ELSE -90

\* WeaponSwing.rotate, the angle
RotateAngle(side, d) ==
    IF side = 1
    THEN Atan2Deg(-side * d[2], d[1]) + LeftSwing
    ELSE Atan2Deg(side * d[2], d[1]) + RightSwing

\* WeaponSwing.swing
Swung(sw) == [sw EXCEPT !.angle = @ + SwingStep * sw.swing_side, !.counter = @ + 1]

\* Enemy.can_get_hurt_from_weapon: the hit cooldown has elapsed
can_get_hurt_from_weapon(e, t) == t - e.weapon_hurt_cooldown > HitCooldown

\* Katana.enemy_in_list
enemy_in_list(list, e) == \E k \in 1 .. Len(list) : list[k].enemy = e

\* sum of Slash.damage over the Slash objects of enemy e (Slash.update runs on each)
RECURSIVE SlashSum(_, _)
SlashSum(list, e) ==
    IF list = <<>> THEN 0
    ELSE (IF Head(list).enemy = e THEN Head(list).damage ELSE 0) + SlashSum(Tail(list), e)

special_effect_Always(list, e) ==
    Append([k \in 1 .. Len(list) |->
               IF list[k].enemy = e THEN [list[k] EXCEPT !.damage = @ + 1] ELSE list[k]],
           [enemy |-> e, damage |-> 1])

special_effect_NoIncrement(list, e) ==
    IF enemy_in_list(list, e) THEN list ELSE Append(list, [enemy |-> e, damage |-> 1])

\* Katana.special_effect, the new damage_enemies
special_effect(list, e) ==
    LET upd == [k \in 1 .. Len(list) |->
                   IF list[k].enemy = e THEN [list[k] EXCEPT !.damage = @ + 1] ELSE list[k]]
    IN  IF enemy_in_list(upd, e) THEN upd ELSE Append(upd, [enemy |-> e, damage |-> 1])

\* Weapon.enemy_collision, the body of the loop for one struck enemy
HitEnemy(st, e, t, strength) ==
    LET m == SlashSum(st.slashes, e)
        h == st.hist
    IN  [enemy |-> [st.enemy EXCEPT
                       ![e].hp = @ - (KatanaDamage * m) \div 10
                                   - (KatanaDamage * strength) \div 10,
                       ![e].hurt = TRUE,
                       ![e].hurt_timer = t,
                       ![e].weapon_hurt_cooldown = t],
         slashes |-> special_effect(st.slashes, e),
         hist |-> [h EXCEPT !.hits[e] = @ + 1, !.total[e] = @ + 1, !.applied[e] = m,
                            !.first[e] = IF h.hits[e] = 0 THEN m ELSE @]]

RECURSIVE enemy_collision_HitsDead(_, _, _, _, _, _)
enemy_collision_HitsDead(k, list, st, over, t, strength) ==
    IF k > Len(list) THEN st
    ELSE LET e == list[k]
         IN  IF e \in over /\ can_get_hurt_from_weapon(st.enemy[e], t)
             THEN enemy_collision_HitsDead(k + 1, list, HitEnemy(st, e, t, strength), over, t,
                                           strength)
             ELSE enemy_collision_HitsDead(k + 1, list, st, over, t, strength)

\* Weapon.enemy_collision; over is the set of enemies whose mask the weapon's overlaps
RECURSIVE enemy_collision(_, _, _, _, _, _)
enemy_collision(k, list, st, over, t, strength) ==
    IF k > Len(list) THEN st
    ELSE LET e == list[k]
         IN  IF /\ e \in over
                /\ st.enemy[e].dead = FALSE
                /\ can_get_hurt_from_weapon(st.enemy[e], t)
             THEN enemy_collision(k + 1, list, HitEnemy(st, e, t, strength), over, t, strength)
             ELSE enemy_collision(k + 1, list, st, over, t, strength)

\* Weapon.enemy_collision reaches its body: some enemy of the list passes the if
Strikes(list, en, o, t) ==
    \E k \in 1 .. Len(list) :
        /\ list[k] \in o
        /\ en[list[k]].dead = FALSE
        /\ can_get_hurt_from_weapon(en[list[k]], t)

\* the classes that define special_effect and damage: Katana only
HasSpecialEffect(w) == w = "katana"

Swinging_Always(attacking, sw) == sw.counter <= SwingFrames

\* Weapon.player_update / Katana.player_update, the test that selects swing()
\* and enemy_collision() over rotate()
Swinging(attacking, sw) == attacking /\ sw.counter <= SwingFrames

SwingOver_Early(sw) == sw.counter = SwingFrames - 1

\* Weapon.player_update / Katana.player_update, the end-of-swing test
SwingOver(sw) == sw.counter = SwingFrames

\* Katana.player_update (Weapon.player_update is the same but for screen_position)
\* in a frame where collide_mask holds for the enemies of o
WeaponUpdatedOver(o) ==
    /\ player.weapon # "none"
    /\ LET reset == SwingOver(swing)
           attacking1 == IF reset THEN FALSE ELSE player.attacking
           sw1 == IF reset THEN [swing EXCEPT !.counter = 0] ELSE swing
           h1 == IF reset
                 THEN [hist EXCEPT !.hits = [e \in EnemyIds |-> 0],
                                   !.first = [e \in EnemyIds |-> 0],
                                   !.swings = @ + 1, !.reset = TRUE, !.removed = 0]
                 ELSE [hist EXCEPT !.reset = FALSE, !.removed = 0]
       IN  /\ flipped' = IF reset THEN ~flipped ELSE flipped
           /\ calls' = IF player.attacking
                       THEN (IF swing.counter = 0 THEN 1 ELSE calls + 1)
                       ELSE 0
           /\ IF /\ Swinging(attacking1, sw1)
                 /\ ~HasSpecialEffect(player.weapon)
                 /\ Strikes(enemy_list, enemy, o, now)
              THEN \* weapon.special_effect is looked up and is not there: AttributeError
                   /\ swing' = Swung(sw1)
                   /\ hist' = [h1 EXCEPT !.mode = "raised"]
                   /\ player' = [player EXCEPT !.attacking = attacking1]
                   /\ UNCHANGED <<enemy, damage_enemies>>
              ELSE IF Swinging(attacking1, sw1)
              THEN LET st == enemy_collision(1, enemy_list,
                                 [enemy |-> enemy, slashes |-> damage_enemies,
                                  hist |-> [h1 EXCEPT !.mode = "swing"]],
                                 o, now, player.strength)
                   IN  /\ swing' = Swung(sw1)
                       /\ enemy' = st.enemy
                       /\ damage_enemies' = st.slashes
                       /\ hist' = st.hist
                       /\ player' = [player EXCEPT !.attacking = attacking1]
              ELSE \E d \in PointerDirs :
                      /\ swing' = [sw1 EXCEPT !.angle = RotateAngle(sw1.swing_side, d)]
                      /\ hist' = [h1 EXCEPT !.mode = "rotate"]
                      /\ player' = [player EXCEPT !.attacking = attacking1]
                      /\ UNCHANGED <<enemy, damage_enemies>>

WeaponUpdated == \E o \in SUBSET EnemyIds : WeaponUpdatedOver(o)

\* the player's pass of a frame in which only the weapon is updated
player_update ==
    /\ wpc = "player"
    /\ \E o \in SUBSET EnemyIds :
          /\ WeaponUpdatedOver(o)
          /\ overlap' = IF hist'.mode \in {"swing", "raised"} THEN o ELSE {}
    /\ wpc' = "input"
    /\ now' = now + 1
    /\ UNCHANGED <<lootVars, done, aim, obj, entity, bulletVars, current_room, switch_room, enemy_list, room_enemies, last,
                   eit, ecur>>

\* Player.input: the attack button starts a swing when a weapon is held
AttackInput ==
    /\ wpc = "input"
    /\ now < MaxMeleeFrames
    /\ \E press \in BOOLEAN :
          player' = [player EXCEPT !.attacking = @ \/ (press /\ player.weapon # "none")]
    /\ wpc' = "enemies"
    /\ overlap' = {}
    /\ UNCHANGED <<lootVars, done, aim, obj, entity, bulletVars, current_room, switch_room, enemy, enemy_list,
                   room_enemies, now, last, swing, flipped, damage_enemies, calls, eit, ecur, hist>>

\* Player.input while a plain Weapon is held; the frame loop has ended once an
\* exception has left Game.update_groups
WeaponInput ==
    /\ hist.mode # "raised"
    /\ AttackInput

InitMelee ==
    /\ bullet = [b \in BulletIds |-> NoBullet]
    /\ bullets = <<>>
    /\ next_id = 1
    /\ current_room = 1
    /\ switch_room = FALSE
    /\ player = NewPlayer(0, "katana")
    /\ enemy = [e \in EnemyIds |-> NewEnemy(IF e = 1 THEN BossHp ELSE EnemyHp)]
    /\ enemy_list = <<>>
    /\ room_enemies = <<1, 2>>
    /\ pc = "idle"
    /\ it = 0
    /\ cur = 0
    /\ now = 0
    /\ last = NoEvent
    /\ swing = [counter |-> 0, angle |-> 0, swing_side |-> 1]
    /\ flipped = FALSE
    /\ damage_enemies = <<>>
    /\ calls = 0
    /\ wpc = "input"
    /\ eit = 0
    /\ ecur = 0
    /\ hist = NoHist
    /\ done = <<>>
    /\ aim = NoAim
    /\ obj = NoObject
    /\ entity = NoEntity
    /\ overlap = {}
    /\ chest = NoChest
    /\ objects = NoObjects
    /\ tick = NoTick

NextMelee ==
    \/ AttackInput
    \/ update_enemies
    \/ EnemyIterNext
    \/ detect_death
    \/ basic_update
    \/ player_update

SpecMelee == InitMelee /\ [][NextMelee]_vars

(***************************************************************************)
(* The constructors on a grid of spawn positions and targets               *)
(***************************************************************************)
\* the rotation argument of BossBullet, in degrees; 0 stands for None as well
Rotations == {0, 45, 90, 180, 270}

\* 10000 * cos and 10000 * sin of these angles
Cos10k(r) == IF r = 0 THEN 10000 ELSE IF r = 45 THEN 7071 ELSE IF r = 180 THEN -10000 ELSE 0

Sin10k(r) == IF r = 45 THEN 7071 ELSE IF r = 90 THEN 10000 ELSE IF r = 270 THEN -10000 ELSE 0

\* pygame.math.Vector2.rotate_ip(r), on a vector in 1/100
rotate_ip(d, r) ==
    <<RoundDiv(d[1] * Cos10k(r) - d[2] * Sin10k(r), 10000),
      RoundDiv(d[1] * Sin10k(r) + d[2] * Cos10k(r), 10000)>>

\* ImpBullet.__init__, BossBullet.__init__, MachineGunBullet.__init__: only
\* BossBullet rotates, MachineGunBullet does not pass its rotation on
Constructed(kind, room, x, y, target, rotation, damage) ==
    LET b == NewBullet(kind, room, x, y, target, damage)
    IN  IF kind = "boss" /\ rotation # 0
        THEN [b EXCEPT !.dir = rotate_ip(b.dir, rotation)]
        ELSE b

Normalised_Guarded(vx, vy) ==
    [raised |-> FALSE,
     dir |-> IF Hypot100(vx, vy) = 0 THEN <<0, 0>> ELSE calculate_dir(vx, vy)]

\* Bullet.calculate_dir on any vector: dividing by a length of 0 raises
\* ZeroDivisionError, and Bullet.__init__ does not return
Normalised(vx, vy) ==
    IF Hypot100(vx, vy) = 0
    THEN [raised |-> TRUE, dir |-> <<0, 0>>]
    ELSE [raised |-> FALSE, dir |-> calculate_dir(vx, vy)]

AimStep == 37

AimGrid == { AimStep * i : i \in 0 .. MaxAim }

\* BulletManager.add_bullet(ImpBullet(...)), add_bullet(BossBullet(...)),
\* add_bullet(MachineGunBullet(...)) on an empty list
Construct ==
    /\ pc = "idle"
    /\ next_id = 1
    /\ ~aim.raised
    /\ \E kind \in {"imp", "boss", "mg"}, x \in AimGrid, y \in AimGrid,
          tx \in AimGrid, ty \in AimGrid, r \in Rotations :
          LET n == Normalised(tx - x, ty - y)
          IN  /\ kind = "imp" => r = 0
              /\ aim' = [kind |-> kind, x |-> x, y |-> y, target |-> <<tx, ty>>,
                         rotation |-> r, raised |-> n.raised]
              /\ IF n.raised
                 THEN UNCHANGED <<bullet, bullets, next_id>>
                 ELSE /\ bullet' = [bullet EXCEPT ![next_id] =
                                       IF n.dir = <<0, 0>>
                                       THEN [NoBullet EXCEPT !.made = TRUE, !.kind = kind]
                                       ELSE Constructed(kind, 1, x, y, <<tx, ty>>, r, 10)]
                      /\ bullets' = Append(bullets, next_id)
                      /\ next_id' = next_id + 1
    /\ last' = NoEvent
    /\ UNCHANGED <<current_room, switch_room, player, enemy, enemy_list, room_enemies,
                   pc, it, cur, now, weaponVars, done, obj, entity, overlap, lootVars>>

NextAim ==
    \/ Construct

SpecAim == InitBullet /\ [][NextAim]_vars

(***************************************************************************)
(* BulletManager.update on a list of several bullets: the list holds       *)
(* bullets fired earlier, in any order; only the bullet pass runs.         *)
(***************************************************************************)
\* a bullet that reaches the player's hitbox and the wall under it in one update, a
\* bullet in the open, a bullet that leaves the bounds into the top wall, a
\* bullet of another room
ListShots ==
    << [kind |-> "imp",  room |-> 1, x |-> 95,  y |-> 145, target |-> <<195, 145>>, damage |-> 10],
       [kind |-> "imp",  room |-> 1, x |-> 500, y |-> 500, target |-> <<600, 500>>, damage |-> 10],
       [kind |-> "boss", room |-> 1, x |-> 640, y |-> 3,   target |-> <<640, -97>>, damage |-> 10],
       [kind |-> "imp",  room |-> 2, x |-> 90,  y |-> 120, target |-> <<190, 120>>, damage |-> 10] >>

MaxListed == MaxBullets + 1

\* the lists add_bullet can have built: each entry the index of a shot
ShotLists == UNION { [1 .. n -> 1 .. Len(ListShots)] : n \in 0 .. MaxListed }

InitList ==
    /\ \E l \in ShotLists :
          /\ bullet = [b \in BulletIds |->
                          IF b <= Len(l)
                          THEN NewBullet(ListShots[l[b]].kind, ListShots[l[b]].room,
                                         ListShots[l[b]].x, ListShots[l[b]].y,
                                         ListShots[l[b]].target, ListShots[l[b]].damage)
                          ELSE NoBullet]
          /\ bullets = [k \in 1 .. Len(l) |-> k]
          /\ next_id = Len(l) + 1
    /\ current_room = 1
    /\ switch_room = FALSE
    /\ \E sh \in {0, 1}, att \in BOOLEAN :
          player = [NewPlayer(sh, "katana") EXCEPT !.attacking = att]
    /\ enemy = [e \in EnemyIds |-> NewEnemy(EnemyHp)]
    /\ enemy_list = <<1, 2>>
    /\ room_enemies = <<1, 2>>
    /\ pc = "idle"
    /\ it = 0
    /\ cur = 0
    /\ now = 0
    /\ last = NoEvent
    /\ swing = [counter |-> 0, angle |-> 0, swing_side |-> 1]
    /\ flipped = FALSE
    /\ damage_enemies = <<>>
    /\ calls = 0
    /\ wpc = "idle"
    /\ eit = 0
    /\ ecur = 0
    /\ hist = NoHist
    /\ done = <<>>
    /\ aim = NoAim
    /\ obj = NoObject
    /\ entity = NoEntity
    /\ overlap = {}
    /\ chest = NoChest
    /\ objects = NoObjects
    /\ tick = NoTick

NextList ==
    \/ BulletManagerUpdate
    \/ IterStep
    \/ IterEnd
    \/ update_position
    \/ enemy_scan
    \/ player_collision
    \/ bounce
    \/ bounds_check
    \/ wall_collision

SpecList == InitList /\ [][NextList]_vars

(***************************************************************************)
(* Game.update_groups: one frame.  wpc is the category being updated, pc   *)
(* the position inside the bullet pass.  game_over.update and              *)
(* mini_map.update, which end the frame, touch none of the state kept here.*)
(***************************************************************************)
update_groups_PlayerLate == <<"enemies", "objects", "bullets", "player", "world">>

\* Game.update_groups: the order of the calls
update_groups == <<"enemies", "objects", "player", "bullets", "world">>

\* the call that follows the call of category c, "input" after the last one
After(c) ==
    LET k == CHOOSE i \in 1 .. Len(update_groups) : update_groups[i] = c
    IN  IF k < Len(update_groups) THEN update_groups[k + 1] ELSE "input"

\* Game.run_game: input(), then update_groups() starts with its first call
FrameInput ==
    /\ wpc = "input"
    /\ pc = "idle"
    /\ now < MaxFrames
    /\ \E press \in BOOLEAN :
          player' = [player EXCEPT !.attacking = @ \/ (press /\ player.weapon # "none")]
    /\ wpc' = update_groups[1]
    /\ done' = <<>>
    /\ UNCHANGED <<lootVars, overlap, entity, obj, aim, bulletVars, current_room, switch_room, enemy, enemy_list, room_enemies,
                   now, last, swing, flipped, damage_enemies, calls, eit, ecur, hist>>

\* Enemy.update: a living enemy fires during its update
EnemyShoots ==
    /\ wpc = "eanim"
    /\ ~enemy[ecur].dead
    /\ AddBullet

\* enemy_manager.update_enemies() returns
EnemiesDone ==
    /\ wpc = "eloop"
    /\ eit >= Len(room_enemies)
    /\ ecur' = 0
    /\ eit' = 0
    /\ wpc' = After("enemies")
    /\ done' = Append(done, "enemies")
    /\ UNCHANGED <<lootVars, overlap, entity, obj, aim, bulletVars, current_room, switch_room, player, enemy, enemy_list,
                   room_enemies, now, last, swing, flipped, damage_enemies, calls, hist>>

\* object_manager.update(): none of the objects it updates is part of this state
ObjectsUpdate ==
    /\ wpc = "objects"
    /\ wpc' = After("objects")
    /\ done' = Append(done, "objects")
    /\ UNCHANGED <<lootVars, overlap, entity, obj, aim, bulletVars, current_room, switch_room, player, enemy, enemy_list,
                   room_enemies, now, last, swing, flipped, damage_enemies, calls, eit, ecur,
                   hist>>

\* player.update(): the held weapon is updated
PlayerUpdate ==
    /\ wpc = "player"
    /\ WeaponUpdated
    /\ wpc' = After("player")
    /\ done' = Append(done, "player")
    /\ UNCHANGED <<lootVars, overlap, entity, obj, aim, bulletVars, current_room, switch_room, enemy_list, room_enemies, now,
                   last, eit, ecur>>

\* bullet_manager.update() is called
BulletsStart ==
    /\ wpc = "bullets"
    /\ BulletManagerUpdate

\* bullet_manager.update() returns
BulletsDone ==
    /\ wpc = "bullets"
    /\ pc = "next"
    /\ it >= Len(bullets)
    /\ cur' = 0
    /\ it' = 0
    /\ pc' = "idle"
    /\ last' = NoEvent
    /\ wpc' = After("bullets")
    /\ done' = Append(done, "bullets")
    /\ UNCHANGED <<lootVars, overlap, entity, obj, aim, bullet, bullets, next_id, current_room, switch_room, player, enemy,
                   enemy_list, room_enemies, now, swing, flipped, damage_enemies, calls, eit,
                   ecur, hist>>

\* world_manager.update(): a room transition may start or end; the frame is over
WorldPass ==
    /\ wpc = "world"
    /\ \E sw \in BOOLEAN : switch_room' = sw
    /\ wpc' = After("world")
    /\ done' = Append(done, "world")
    /\ now' = now + 1
    /\ UNCHANGED <<lootVars, overlap, entity, obj, aim, bulletVars, current_room, player, enemy, enemy_list, room_enemies,
                   last, swing, flipped, damage_enemies, calls, eit, ecur, hist>>

InitFrame ==
    /\ bullet = [b \in BulletIds |-> NoBullet]
    /\ bullets = <<>>
    /\ next_id = 1
    /\ current_room = 1
    /\ switch_room = FALSE
    /\ player = NewPlayer(0, "katana")
    /\ enemy = [e \in EnemyIds |-> NewEnemy(EnemyHp)]
    /\ enemy_list = <<>>
    /\ room_enemies = <<1, 2>>
    /\ pc = "idle"
    /\ it = 0
    /\ cur = 0
    /\ now = 0
    /\ last = NoEvent
    /\ swing = [counter |-> 0, angle |-> 0, swing_side |-> 1]
    /\ flipped = FALSE
    /\ damage_enemies = <<>>
    /\ calls = 0
    /\ wpc = "input"
    /\ eit = 0
    /\ ecur = 0
    /\ hist = NoHist
    /\ done = <<>>
    /\ aim = NoAim
    /\ obj = NoObject
    /\ entity = NoEntity
    /\ overlap = {}
    /\ chest = NoChest
    /\ objects = NoObjects
    /\ tick = NoTick

NextFrame ==
    \/ FrameInput
    \/ update_enemies
    \/ EnemyIterStep
    \/ detect_death
    \/ EnemyShoots
    \/ basic_update
    \/ EnemiesDone
    \/ ObjectsUpdate
    \/ PlayerUpdate
    \/ BulletsStart
    \/ IterStep
    \/ update_position
    \/ enemy_scan
    \/ player_collision
    \/ bounce
    \/ bounds_check
    \/ wall_collision
    \/ BulletsDone
    \/ WorldPass

SpecFrame == InitFrame /\ [][NextFrame]_vars

\* the frames of SpecMelee with a Weapon that is not a Katana in the player's hand
InitWeapon ==
    /\ bullet = [b \in BulletIds |-> NoBullet]
    /\ bullets = <<>>
    /\ next_id = 1
    /\ current_room = 1
    /\ switch_room = FALSE
    /\ player = NewPlayer(0, "weapon")
    /\ enemy = [e \in EnemyIds |-> NewEnemy(IF e = 1 THEN BossHp ELSE EnemyHp)]
    /\ enemy_list = <<>>
    /\ room_enemies = <<1, 2>>
    /\ pc = "idle"
    /\ it = 0
    /\ cur = 0
    /\ now = 0
    /\ last = NoEvent
    /\ swing = [counter |-> 0, angle |-> 0, swing_side |-> 1]
    /\ flipped = FALSE
    /\ damage_enemies = <<>>
    /\ calls = 0
    /\ wpc = "input"
    /\ eit = 0
    /\ ecur = 0
    /\ hist = NoHist
    /\ done = <<>>
    /\ aim = NoAim
    /\ obj = NoObject
    /\ entity = NoEntity
    /\ overlap = {}
    /\ chest = NoChest
    /\ objects = NoObjects
    /\ tick = NoTick

NextWeapon ==
    \/ WeaponInput
    \/ update_enemies
    \/ EnemyIterNext
    \/ detect_death
    \/ basic_update
    \/ player_update

SpecWeapon == InitWeapon /\ [][NextWeapon]_vars

(***************************************************************************)
(* Object.update_bounce and the Bounce integrator.  Positions and          *)
(* velocities are kept in 1/10000 pixel, elasticity and drag in 1/1000.    *)
(* The pair (angle, speed) of the code is kept as the vector               *)
(* v = <<sin(angle) * speed, cos(angle) * speed>>, which is what move()    *)
(* and add_vectors compute with; speed is the length of v.                 *)
(***************************************************************************)
Gravity == 20
Drag == 999
SettleSpeed == 40
ResetSpeed == 5000
ResetElasticity == 750
SubSteps == 15
FloorY == 654
LeftX == 208
RightX == 1136

TruncDiv(a, b) == IF a >= 0 THEN a \div b ELSE -((-a) \div b)

\* speed *= m / 1000, on the vector
Scaled(v, m) == <<TruncDiv(v[1] * m, 1000), TruncDiv(v[2] * m, 1000)>>

\* the square of Bounce.speed
Speed2(b) == b.v[1] * b.v[1] + b.v[2] * b.v[2]

\* 10000 * sin and 10000 * cos of an angle given in 1/10 radian
SinRad(a) ==
    IF a = 10 THEN 8415 ELSE IF a = -10 THEN -8415
    ELSE IF a = 100 THEN -5440 ELSE IF a = -100 THEN 5440 ELSE 0

CosRad(a) ==
    IF a = 10 \/ a = -10 THEN 5403
    ELSE IF a = 100 \/ a = -100 THEN -8391 ELSE 10000

\* the vector of a speed and an angle
Polar(speed, a) ==
    <<TruncDiv(speed * SinRad(a), 10000), TruncDiv(speed * CosRad(a), 10000)>>

\* Bounce.add_vectors(angle, speed, *gravity): gravity is (pi, 0.002)
add_vectors(v) == <<v[1], v[2] - Gravity>>

\* Bounce.move
Bounce_move(b) ==
    LET w == add_vectors(b.v)
    IN  [b EXCEPT !.x = @ + w[1], !.y = @ - w[2], !.v = Scaled(w, Drag)]

Bounce_bounce_Elastic(b) ==
    LET top == (FloorY - b.size) * 10000
        b1 == IF b.y > b.limit
              THEN [b EXCEPT !.y = 2 * b.limit - @, !.v = <<b.v[1], -b.v[2]>>]
              ELSE IF b.y > top
              THEN [b EXCEPT !.y = 2 * top - @, !.v = <<b.v[1], -b.v[2]>>]
              ELSE b
    IN  b1

Bounce_bounce_NoReflect(b) ==
    IF b.y > b.limit
    THEN [b EXCEPT !.v = Scaled(<<b.v[1], -b.v[2]>>, b.elasticity)]
    ELSE b

\* Bounce.bounce
Bounce_bounce(b) ==
    LET top == (FloorY - b.size) * 10000
        left == LeftX * 10000
        right == (RightX - b.size) * 10000
        b1 == IF b.y > b.limit
              THEN [b EXCEPT !.y = 2 * b.limit - @,
                             !.v = Scaled(<<b.v[1], -b.v[2]>>, b.elasticity)]
              ELSE IF b.y > top
              THEN [b EXCEPT !.y = 2 * top - @,
                             !.v = Scaled(<<b.v[1], -b.v[2]>>, b.elasticity)]
              ELSE b
    IN  IF b1.x < left
        THEN [b1 EXCEPT !.x = 2 * left - @,
                        !.v = Scaled(<<-b1.v[1], b1.v[2]>>, b1.elasticity)]
        ELSE IF b1.x > right
        THEN [b1 EXCEPT !.x = 2 * right - @,
                        !.v = Scaled(<<-b1.v[1], b1.v[2]>>, b1.elasticity)]
        ELSE b1

\* Bounce.reset; a is the angle random.choice draws
Bounce_reset(b, a) ==
    [b EXCEPT !.v = Polar(ResetSpeed, a), !.elasticity = ResetElasticity]

Settled_Never(b) == FALSE

\* Object.update_bounce, the first test
Settled(b) == Speed2(b) < SettleSpeed * SettleSpeed

\* The drops of the scenario: the chest's hitbox midtop (cx, cy), the top of its
\* rect, the item's size[0], and the draws of activate_bounce and Bounce.__init__
Launches ==
    { [cx |-> 500, cy |-> 400, top |-> 400, size |-> 16, offset |-> 0,
       speed |-> 5000, angle |-> 10, elasticity |-> 750],
      [cx |-> 500, cy |-> 400, top |-> 400, size |-> 16, offset |-> 20,
       speed |-> 6000, angle |-> 0, elasticity |-> 900],
      [cx |-> 210, cy |-> 405, top |-> 400, size |-> 16, offset |-> 0,
       speed |-> 5000, angle |-> -10, elasticity |-> 900],
      [cx |-> 500, cy |-> 630, top |-> 630, size |-> 16, offset |-> 20,
       speed |-> 5000, angle |-> 0, elasticity |-> 750] }

\* Chest.drop_items on one item: dropped, activate_bounce(), bounce.x and bounce.y
DropItem ==
    /\ obj.bpc = "idle"
    /\ ~obj.bounce.made
    /\ \E l \in Launches :
          obj' = [obj EXCEPT
                    !.dropped = TRUE,
                    !.rect = <<l.cx, l.top>>,
                    !.bounce = [made |-> TRUE, x |-> l.cx * 10000, y |-> l.cy * 10000,
                                v |-> Polar(l.speed, l.angle),
                                elasticity |-> l.elasticity,
                                limit |-> (l.top + l.offset) * 10000, size |-> l.size]]
    /\ UNCHANGED <<bulletVars, weaponVars, current_room, switch_room, player, enemy,
                   enemy_list, room_enemies, now, last, done, aim, entity, overlap, lootVars>>

\* Object.update_bounce up to the for loop
update_bounce ==
    /\ obj.bpc = "idle"
    /\ obj.bounce.made
    /\ obj.calls < MaxBounceTicks
    /\ IF Settled(obj.bounce)
       THEN \E a \in {100, -100} :
               obj' = [obj EXCEPT !.dropped = FALSE,
                                  !.bounce = Bounce_reset(obj.bounce, a),
                                  !.prev = obj.bounce,
                                  !.settled = obj.calls + 1,
                                  !.calls = @ + 1]
       ELSE IF obj.dropped
       THEN obj' = [obj EXCEPT !.bpc = "move", !.sub = 0, !.calls = @ + 1]
       ELSE obj' = [obj EXCEPT !.calls = @ + 1]
    /\ UNCHANGED <<bulletVars, weaponVars, current_room, switch_room, player, enemy,
                   enemy_list, room_enemies, now, last, done, aim, entity, overlap, lootVars>>

\* self.bounce.move() in the loop of update_bounce
move ==
    /\ obj.bpc = "move"
    /\ obj' = [obj EXCEPT !.bounce = Bounce_move(obj.bounce), !.prev = obj.bounce,
                          !.bpc = "bounce"]
    /\ UNCHANGED <<bulletVars, weaponVars, current_room, switch_room, player, enemy,
                   enemy_list, room_enemies, now, last, done, aim, entity, overlap, lootVars>>

\* self.bounce.bounce() in the loop of update_bounce
bounce_step ==
    /\ obj.bpc = "bounce"
    /\ obj' = [obj EXCEPT !.bounce = Bounce_bounce(obj.bounce), !.prev = obj.bounce,
                          !.sub = @ + 1, !.steps = @ + 1,
                          !.bpc = IF obj.sub + 1 < SubSteps THEN "move" ELSE "rect"]
    /\ UNCHANGED <<bulletVars, weaponVars, current_room, switch_room, player, enemy,
                   enemy_list, room_enemies, now, last, done, aim, entity, overlap, lootVars>>

\* Object.update_bounce after the loop: rect.x and rect.y take the integer part
set_rect ==
    /\ obj.bpc = "rect"
    /\ obj' = [obj EXCEPT !.rect = <<TruncDiv(obj.bounce.x, 10000),
                                     TruncDiv(obj.bounce.y, 10000)>>,
                          !.bpc = "idle", !.sub = 0]
    /\ UNCHANGED <<bulletVars, weaponVars, current_room, switch_room, player, enemy,
                   enemy_list, room_enemies, now, last, done, aim, entity, overlap, lootVars>>

NextBounce ==
    \/ DropItem
    \/ update_bounce
    \/ move
    \/ bounce_step
    \/ set_rect

SpecBounce == InitMelee /\ [][NextBounce]_vars

(***************************************************************************)
(* Chest: add_treasure, interact, change_chest_state and drop_items.  An   *)
(* item is the number of its place in the list add_treasure built;         *)
(* animation_frame is kept in 1/20.                                        *)
(***************************************************************************)
TreasureItems == 3
MinCoins == 20
MaxCoins == 30
MinGems == 2
MaxGems == 7
OpenFrames == 40
LastFrame == 60

\* the loop of Chest.drop_items: i is the index the list iterator has reached in
\* c.items, which self.items.remove(item) shortens under it (the chest after one
\* pass of the body is bound by a set so that it is evaluated once)
RECURSIVE DropLoop_All(_, _)
DropLoop_All(c, i) ==
    IF c.items = <<>> THEN c
    ELSE DropLoop_All([c EXCEPT !.dropped = @ \cup {Head(c.items)},
                                !.room_objects = Append(@, Head(c.items)),
                                !.items = Tail(@)], i)

RECURSIVE DropLoop_Lose(_, _)
DropLoop_Lose(c, i) ==
    IF i >= Len(c.items) THEN c
    ELSE CHOOSE r \in {DropLoop_Lose(d, i + 1) :
                         d \in {[c EXCEPT !.items = Remove(@, c.items[i + 1])]}} : TRUE

RECURSIVE DropLoop(_, _)
DropLoop(c, i) ==
    IF i >= Len(c.items) THEN c
    ELSE LET item == c.items[i + 1]
         IN  CHOOSE r \in {DropLoop(d, i + 1) :
                              d \in {[c EXCEPT !.dropped = @ \cup {item},
                                               !.room_objects = Append(@, item),
                                               !.items = Remove(@, item)]}} : TRUE

\* Chest.drop_items
drop_items(c) == [DropLoop(c, 0) EXCEPT !.drops = IF c.items = <<>> THEN @ ELSE @ + 1]

\* Chest.__init__ with add_treasure: three of the four specials, then the coins,
\* the emeralds and the rubies
NewChest ==
    /\ ~chest.made
    /\ \E c \in MinCoins .. MaxCoins, e \in MinGems .. MaxGems, r \in MinGems .. MaxGems :
          chest' = [NoChest EXCEPT !.made = TRUE,
                                   !.items = [k \in 1 .. (TreasureItems + c + e + r) |-> k],
                                   !.held = TreasureItems + c + e + r]
    /\ UNCHANGED <<bulletVars, weaponVars, current_room, switch_room, player, enemy, enemy_list,
                   room_enemies, now, last, done, aim, obj, entity, overlap, objects, tick>>

\* Chest.interact
interact ==
    /\ chest.made
    /\ ~chest.open
    /\ chest' = [chest EXCEPT !.open = TRUE]
    /\ UNCHANGED <<bulletVars, weaponVars, current_room, switch_room, player, enemy, enemy_list,
                   room_enemies, now, last, done, aim, obj, entity, overlap, objects, tick>>

\* Chest.change_chest_state, called by Chest.update in every frame
change_chest_state ==
    /\ chest.made
    /\ chest' = IF chest.open /\ chest.animation_frame <= OpenFrames
                THEN [chest EXCEPT !.animation_frame = @ + 1]
                ELSE IF OpenFrames < chest.animation_frame /\ chest.animation_frame <= LastFrame
                THEN [chest EXCEPT !.animation_frame = @ + 1]
                ELSE IF chest.open THEN drop_items(chest)
                ELSE chest
    /\ UNCHANGED <<bulletVars, weaponVars, current_room, switch_room, player, enemy, enemy_list,
                   room_enemies, now, last, done, aim, obj, entity, overlap, objects, tick>>

NextChest ==
    \/ NewChest
    \/ interact
    \/ change_chest_state

SpecChest == InitMelee /\ [][NextChest]_vars

\* ObjectManager.update calls the update of every object of the room in every frame
SpecChestLive == SpecChest /\ WF_vars(change_chest_state)

(***************************************************************************)
(* ObjectManager: set_current_objects, detect_collision and interact, with *)
(* the interact and buy of flasks, power-ups and weapons                   *)
(***************************************************************************)
Heal == 20
MaxItems == 2

apply_effect_NoCap(p) == [p EXCEPT !.hp = @ + Heal]

\* GreenFlask.apply_effect, the player
apply_effect(p) ==
    IF p.hp <= p.max_hp - Heal THEN [p EXCEPT !.hp = @ + Heal] ELSE [p EXCEPT !.hp = p.max_hp]

\* RedFlask.apply_effect, the player
apply_effect_Red(p) == [p EXCEPT !.hp = @ + Heal, !.max_hp = @ + Heal]

\* self.room.objects.remove(self): ValueError when the object is not in the list
Removed(ob, o) ==
    IF InList(o, ob.rooms[ob.heap[o].room])
    THEN [ob EXCEPT !.rooms[ob.heap[o].room] = Remove(@, o)]
    ELSE [ob EXCEPT !.raised = TRUE]

\* the interact() of object o: Flask.interact with apply_effect,
\* ShieldPowerUp.interact, Weapon.interact; st holds the player and the objects
Interacted(st, o, room) ==
    LET k == st.objects.heap[o].kind
        here == st.objects.heap[o].room = room
        off == [st.objects EXCEPT !.heap[o].interaction = FALSE]
    IN  IF k = "green"
        THEN [player |-> apply_effect(st.player),
              objects |-> IF here THEN Removed(off, o) ELSE off]
        ELSE IF k = "red"
        THEN [player |-> apply_effect_Red(st.player),
              objects |-> IF here THEN Removed(off, o) ELSE off]
        ELSE IF k = "shield"
        THEN [player |-> [st.player EXCEPT !.shield = @ + 1],
              objects |-> Removed(st.objects, o)]
        ELSE LET got == [off EXCEPT !.items = Append(@, o),
                                    !.weapon = IF @ = 0 THEN o ELSE @]
             IN  [player |-> [st.player EXCEPT !.weapon = "katana"],
                  objects |-> IF here THEN Removed(got, o) ELSE got]

buy_NoTest(st, o, room) ==
    LET paid == [st EXCEPT !.player.gold = @ - st.objects.heap[o].value]
        done1 == Interacted(paid, o, room)
    IN  [done1 EXCEPT !.objects.heap[o].for_sale = FALSE, !.objects.bought = @ \cup {o}]

\* Object.buy
buy(st, o, room) ==
    IF st.player.gold >= st.objects.heap[o].value
    THEN LET paid == [st EXCEPT !.player.gold = @ - st.objects.heap[o].value]
             done1 == Interacted(paid, o, room)
         IN  [done1 EXCEPT !.objects.heap[o].for_sale = FALSE, !.objects.bought = @ \cup {o}]
    ELSE [st EXCEPT !.objects.refused = @ \cup {o}]

\* ObjectManager.interact, the loop over current_objects from its k-th element
RECURSIVE InteractLoop(_, _, _, _)
InteractLoop(k, list, st, room) ==
    IF k > Len(list) \/ st.objects.raised THEN st
    ELSE LET o == list[k]
         IN  IF st.objects.heap[o].interaction
             THEN IF ~st.objects.heap[o].for_sale
                  THEN InteractLoop(k + 1, list, Interacted(st, o, room), room)
                  ELSE InteractLoop(k + 1, list, buy(st, o, room), room)
             ELSE InteractLoop(k + 1, list, st, room)

\* ObjectManager.update: set_current_objects, then detect_collision of every
\* object; touched are the objects whose rect the player's hitbox overlaps
ObjectManager_update ==
    /\ pc = "idle"
    /\ objects.made /\ ~objects.raised
    /\ LET cur_objects == objects.rooms[current_room]
                            \o (IF objects.next_room # 0 THEN objects.rooms[objects.next_room]
                                ELSE <<>>)
       IN  \E touched \in SUBSET {cur_objects[k] : k \in 1 .. Len(cur_objects)} :
              /\ Cardinality(touched) <= 2
              /\ objects' = [objects EXCEPT
                               !.current_objects = cur_objects,
                               !.heap = [o \in ObjIds |->
                                           IF InList(o, cur_objects)
                                           THEN [@[o] EXCEPT !.interaction = o \in touched]
                                           ELSE @[o]],
                               !.fresh = TRUE, !.bought = {}, !.refused = {}]
    /\ UNCHANGED <<bulletVars, weaponVars, current_room, switch_room, player, enemy, enemy_list,
                   room_enemies, now, last, done, aim, obj, entity, overlap, chest, tick>>

\* ObjectManager.interact, called by the player's input at most once per frame
ObjectManager_interact ==
    /\ pc = "idle"
    /\ objects.made /\ objects.fresh /\ ~objects.raised
    /\ Len(objects.items) < MaxItems
    /\ LET st == InteractLoop(1, objects.current_objects,
                              [player |-> player, objects |-> objects], current_room)
       IN  /\ player' = st.player
           /\ objects' = [st.objects EXCEPT !.fresh = FALSE]
    /\ UNCHANGED <<bulletVars, weaponVars, current_room, switch_room, enemy, enemy_list,
                   room_enemies, now, last, done, aim, obj, entity, overlap, chest, tick>>

\* a shop and two pieces of loot in room 1, and two bullets on their way to the player
InitLoot ==
    /\ bullet = [b \in BulletIds |->
                    IF b <= 2
                    THEN NewBullet(ListShots[1].kind, ListShots[1].room, ListShots[1].x,
                                   ListShots[1].y, ListShots[1].target, ListShots[1].damage)
                    ELSE NoBullet]
    /\ bullets = <<1, 2>>
    /\ next_id = 3
    /\ current_room = 1
    /\ switch_room = FALSE
    /\ \E sh \in {0, 1}, g \in {0, 100, 650} :
          player = [NewPlayer(sh, "none") EXCEPT !.gold = g]
    /\ enemy = [e \in EnemyIds |-> NewEnemy(EnemyHp)]
    /\ enemy_list = <<1, 2>>
    /\ room_enemies = <<1, 2>>
    /\ pc = "idle"
    /\ it = 0
    /\ cur = 0
    /\ now = 0
    /\ last = NoEvent
    /\ swing = [counter |-> 0, angle |-> 0, swing_side |-> 1]
    /\ flipped = FALSE
    /\ damage_enemies = <<>>
    /\ calls = 0
    /\ wpc = "idle"
    /\ eit = 0
    /\ ecur = 0
    /\ hist = NoHist
    /\ done = <<>>
    /\ aim = NoAim
    /\ obj = NoObject
    /\ entity = NoEntity
    /\ overlap = {}
    /\ chest = NoChest
    /\ objects = [NoObjects EXCEPT !.made = TRUE, !.rooms[1] = <<1, 2, 3, 4, 5>>]
    /\ tick = NoTick

\* Weapon.drop of the weapon in the player's hand
Dropped(ob, room) ==
    LET w == ob.weapon
        left == Remove(ob.items, w)
    IN  [ob EXCEPT !.heap[w].room = room,
                   !.items = left,
                   !.rooms[room] = Append(@, w),
                   !.weapon = IF left # <<>> THEN left[Len(left)] ELSE 0]

\* the player's input drops the weapon in his hand
Weapon_drop ==
    /\ pc = "idle"
    /\ objects.made /\ ~objects.raised
    /\ objects.weapon # 0
    /\ Len(objects.rooms[current_room]) < MaxItems
    /\ objects' = [Dropped(objects, current_room) EXCEPT !.fresh = FALSE]
    /\ player' = [player EXCEPT !.weapon = IF objects'.weapon # 0 THEN "katana" ELSE "none"]
    /\ UNCHANGED <<bulletVars, weaponVars, current_room, switch_room, enemy, enemy_list,
                   room_enemies, now, last, done, aim, obj, entity, overlap, chest, tick>>

\* world_manager: a room transition begins (next_room is set) or ends (next_room
\* becomes the current room)
RoomInput ==
    /\ pc = "idle"
    /\ objects.made /\ ~objects.raised
    /\ IF objects.next_room = 0
       THEN /\ \E r \in Rooms \ {current_room} :
                  objects' = [objects EXCEPT !.next_room = r, !.fresh = FALSE]
            /\ switch_room' = TRUE
            /\ UNCHANGED current_room
       ELSE /\ current_room' = objects.next_room
            /\ objects' = [objects EXCEPT !.next_room = 0, !.fresh = FALSE]
            /\ switch_room' = FALSE
    /\ UNCHANGED <<bulletVars, weaponVars, player, enemy, enemy_list, room_enemies, now, last,
                   done, aim, obj, entity, overlap, chest, tick>>

\* a katana lies in each of the two rooms
InitArms ==
    /\ bullet = [b \in BulletIds |-> NoBullet]
    /\ bullets = <<>>
    /\ next_id = 1
    /\ current_room = 1
    /\ switch_room = FALSE
    /\ player = NewPlayer(0, "none")
    /\ enemy = [e \in EnemyIds |-> NewEnemy(EnemyHp)]
    /\ enemy_list = <<>>
    /\ room_enemies = <<>>
    /\ pc = "idle"
    /\ it = 0
    /\ cur = 0
    /\ now = 0
    /\ last = NoEvent
    /\ swing = [counter |-> 0, angle |-> 0, swing_side |-> 1]
    /\ flipped = FALSE
    /\ damage_enemies = <<>>
    /\ calls = 0
    /\ wpc = "idle"
    /\ eit = 0
    /\ ecur = 0
    /\ hist = NoHist
    /\ done = <<>>
    /\ aim = NoAim
    /\ obj = NoObject
    /\ entity = NoEntity
    /\ overlap = {}
    /\ chest = NoChest
    /\ objects = [NoObjects EXCEPT !.made = TRUE, !.rooms[1] = <<6>>, !.rooms[2] = <<7>>]
    /\ tick = NoTick

NextArms ==
    \/ ObjectManager_update
    \/ ObjectManager_interact
    \/ Weapon_drop
    \/ RoomInput

SpecArms == InitArms /\ [][NextArms]_vars

NextLoot ==
    \/ ObjectManager_update
    \/ ObjectManager_interact
    \/ BulletManagerUpdate
    \/ IterNext
    \/ update_position
    \/ enemy_scan
    \/ player_collision
    \/ bounce
    \/ bounds_check
    \/ wall_collision

SpecLoot == InitLoot /\ [][NextLoot]_vars

(***************************************************************************)
(* Entity.wall_collision between set_velocity and the move of basic_update *)
(***************************************************************************)
Velocities == {<<0, 0>>, <<10, 0>>, <<-10, 0>>, <<0, 10>>, <<0, -10>>, <<10, 10>>, <<-10, -10>>}

\* hitbox.move(*velocity)
move_rect(r, v) == [r EXCEPT !.x = @ + v[1], !.y = @ + v[2]]

wall_collision_Unmoved(e) ==
    IF HitsWall(e.hitbox) THEN [e EXCEPT !.velocity = <<0, 0>>] ELSE e

\* Entity.wall_collision
Entity_wall_collision(e) ==
    IF HitsWall(move_rect(e.hitbox, e.velocity)) THEN [e EXCEPT !.velocity = <<0, 0>>] ELSE e

\* Entity.__init__ and its placement in a room: the hitbox lies inside the rect
SpawnEntity ==
    /\ ~entity.made
    /\ \E p \in {<<100, 80>>, <<100, 20>>, <<80, 90>>} :
          entity' = [entity EXCEPT !.made = TRUE, !.rect = <<p[1] - 5, p[2] - 10>>,
                                   !.hitbox = Rect(p[1], p[2], 30, 50)]
    /\ UNCHANGED <<bulletVars, weaponVars, current_room, switch_room, player, enemy,
                   enemy_list, room_enemies, now, last, done, aim, obj, overlap, lootVars>>

\* Entity.set_velocity
set_velocity ==
    /\ entity.made /\ entity.epc = "input"
    /\ entity.frames < MaxEntityFrames
    /\ \E v \in Velocities :
          entity' = [entity EXCEPT !.velocity = v, !.epc = "wall"]
    /\ UNCHANGED <<bulletVars, weaponVars, current_room, switch_room, player, enemy,
                   enemy_list, room_enemies, now, last, done, aim, obj, overlap, lootVars>>

\* Entity.wall_collision
entity_wall_collision ==
    /\ entity.epc = "wall"
    /\ entity' = [Entity_wall_collision(entity) EXCEPT
                    !.pre = entity.velocity, !.walled = TRUE, !.epc = "move"]
    /\ UNCHANGED <<bulletVars, weaponVars, current_room, switch_room, player, enemy,
                   enemy_list, room_enemies, now, last, done, aim, obj, overlap, lootVars>>

\* Entity.basic_update: rect.move_ip(velocity), hitbox.move_ip(velocity)
move_ip ==
    /\ entity.epc = "move"
    /\ entity' = [entity EXCEPT !.rect = <<@[1] + entity.velocity[1], @[2] + entity.velocity[2]>>,
                                !.hitbox = move_rect(@, entity.velocity),
                                !.walled = FALSE,
                                !.frames = @ + 1, !.epc = "input"]
    /\ UNCHANGED <<bulletVars, weaponVars, current_room, switch_room, player, enemy,
                   enemy_list, room_enemies, now, last, done, aim, obj, overlap, lootVars>>

NextEntity ==
    \/ SpawnEntity
    \/ set_velocity
    \/ entity_wall_collision
    \/ move_ip

SpecEntity == InitMelee /\ [][NextEntity]_vars

(***************************************************************************)
(* Claims on the bullet update protocol                                    *)
(***************************************************************************)

\* C1: once a bullet has been reflected (bounce_back False), bounce_back stays
\* False and no later step, bounce() included, changes its dir or speed.
C1_ReflectionIsOneShot ==
    [][\A b \in BulletIds :
          (bullet[b].made /\ bullet[b].bounce_back = FALSE)
              => /\ bullet'[b].bounce_back = FALSE
                 /\ bullet'[b].dir = bullet[b].dir
                 /\ bullet'[b].speed = bullet[b].speed]_vars

\* a bounce() call has run on an already reflected bullet while the player held a
\* weapon, was attacking and the masks overlapped
C1_Witness ==
    /\ last.op = "bounce" /\ last.hit /\ last.pre_bb = FALSE
    /\ player.weapon # "none" /\ player.attacking

\* C2: a bullet overlapping the player's hitbox, outside a room switch, with
\* shield >= 1: shield drops by exactly 1, hp and hurt are unchanged, and the
\* bullet is no longer in BulletManager.bullets.
C2_ShieldAbsorbsHit ==
    [][(/\ pc = "player"
        /\ colliderect(BulletRect(bullet[cur]), PlayerHitbox)
        /\ ~switch_room
        /\ player.shield >= 1)
          => /\ player'.shield = player.shield - 1
             /\ player'.hp = player.hp
             /\ player'.hurt = player.hurt
             /\ player'.hurt_timer = player.hurt_timer
             /\ ~InList(cur, bullets')]_vars

\* a damage-10 bullet that was in the collection has hit a player with shield 2
C2_Witness ==
    /\ last.op = "player_collision" /\ last.hit /\ last.pre_in
    /\ last.pre_shield = 2 /\ player.shield = 1 /\ player.hp = PlayerHp
    /\ bullet[last.b].damage = 10 /\ ~InList(last.b, bullets)

\* C3: a bullet overlapping the player's hitbox, outside a room switch, with
\* shield = 0: hp drops by exactly the bullet's damage, hurt is set, shield stays
\* 0 and the bullet is no longer in BulletManager.bullets.
C3_UnshieldedHitDamages ==
    [][(/\ pc = "player"
        /\ colliderect(BulletRect(bullet[cur]), PlayerHitbox)
        /\ ~switch_room
        /\ player.shield = 0)
          => /\ player'.hp = player.hp - bullet[cur].damage
             /\ player'.hurt = TRUE
             /\ player'.shield = 0
             /\ ~InList(cur, bullets')]_vars

\* hp 50, damage 10, shield 0: hp is 40 and the hurt flag is set
C3_Witness ==
    /\ last.op = "player_collision" /\ last.hit /\ last.pre_in
    /\ last.pre_shield = 0 /\ last.pre_hp = 50 /\ bullet[last.b].damage = 10
    /\ player.hp = 40 /\ player.hurt /\ ~InList(last.b, bullets)

\* C4: at the end of an update() of a bullet whose rect lies outside
\* [0,1300]x[0,1000], the bullet is not in BulletManager.bullets.
C4_OutOfBoundsRemoved ==
    (/\ pc = "next" /\ cur # 0
     /\ \/ bullet[cur].rect[1] < 0 \/ bullet[cur].rect[1] > 1300
        \/ bullet[cur].rect[2] < 0 \/ bullet[cur].rect[2] > 1000)
        => ~InList(cur, bullets)

\* the bounds test has just removed a bullet that left the room on the left
C4_Witness ==
    /\ last.op = "bounds_check" /\ last.hit /\ last.pre_in
    /\ bullet[cur].rect[1] < 0 /\ ~InList(cur, bullets)

\* squared length, in 1/1000 pixel, of the step update_position makes
StepSq(b) ==
    (bullet'[b].pos[1] - bullet[b].pos[1]) * (bullet'[b].pos[1] - bullet[b].pos[1])
    + (bullet'[b].pos[2] - bullet[b].pos[2]) * (bullet'[b].pos[2] - bullet[b].pos[2])

KindConstant(b) == IF bullet[b].kind = "imp" THEN 5 ELSE 7

C6_Original ==
    (wpc = "input" /\ calls = 10) => (swing.counter = 0 /\ ~player.attacking)

\* C6 amended: after the k-th consecutive player_update of a swing (k = 1..10)
\* the counter is exactly k and attacking is still True; the 11th call resets
\* attacking to False and the counter to 0 together and runs rotate().
C6_SwingCounter ==
    wpc = "input"
        => /\ calls \in 1 .. 10 => (swing.counter = calls /\ player.attacking)
           /\ calls = 11 => /\ swing.counter = 0 /\ ~player.attacking
                            /\ hist.reset /\ hist.mode = "rotate"
           /\ calls <= 11

\* the 11th player_update of a swing has just reset the swing
C6_Witness ==
    wpc = "input" /\ calls = 11 /\ hist.reset /\ swing.counter = 0 /\ flipped

\* Slash.damage of the accumulator(s) the katana holds for enemy e, in 1/10
Accumulator(e) == SlashSum(damage_enemies, e)

\* C7 as claimed: within one swing special_effect applies multiplier 0.1 on the
\* first hit of an enemy and 0.2 on the second.
C7_Original ==
    \A e \in EnemyIds :
        /\ hist.hits[e] = 1 => hist.applied[e] = 1
        /\ hist.hits[e] = 2 => hist.applied[e] = 2

\* C7 amended: the multiplier special_effect applies on the second hit of a swing
\* is strictly greater than on the first; on an enemy not hit before, the first
\* hit applies none and creates the accumulator at 0.1, the second applies 0.1
\* and raises the accumulator to 0.2.
C7_SecondHitStronger ==
    \A e \in EnemyIds :
        /\ hist.hits[e] >= 2 => hist.applied[e] > hist.first[e]
        /\ hist.total[e] = 1 => (hist.applied[e] = 0 /\ Accumulator(e) = 1)
        /\ hist.total[e] = 2 => (hist.applied[e] = 1 /\ Accumulator(e) = 2)

\* an enemy has been struck on two frames of one swing
C7_Witness ==
    \E e \in EnemyIds : hist.hits[e] = 2 /\ hist.total[e] = 2 /\ hist.mode = "swing"

\* C8: after the first hit on an enemy in any swing, the katana's accumulator for
\* that enemy is at its starting value 0.1 and special_effect applied no more
\* than on a first hit ever.
C8_PerSwingAccumulator ==
    \A e \in EnemyIds :
        hist.hits[e] = 1 => (Accumulator(e) = 1 /\ hist.applied[e] = 0)

\* C9: damage_enemies holds at most one Slash per enemy.
C9_OneSlashPerEnemy ==
    \A e \in EnemyIds :
        Cardinality({k \in 1 .. Len(damage_enemies) : damage_enemies[k].enemy = e}) <= 1

\* special_effect has run twice for an enemy that has a Slash
C9_Witness ==
    \E e \in EnemyIds : hist.total[e] >= 2 /\ enemy_in_list(damage_enemies, e)

\* C10: an enemy leaves its room's enemy_list, and drop_items runs, only in a
\* detect_death call of that enemy made with death_counter = 0 and with the dead
\* flag already set.
C10_TwoPhaseDeath ==
    [][\A e \in EnemyIds :
          /\ (InList(e, room_enemies) /\ ~InList(e, room_enemies'))
                => /\ wpc = "eupdate" /\ ecur = e
                   /\ enemy[e].dead /\ enemy[e].death_counter = 0
                   /\ enemy'[e].drops = enemy[e].drops + 1
          /\ enemy'[e].drops # enemy[e].drops
                => (InList(e, room_enemies) /\ ~InList(e, room_enemies'))]_vars

\* an enemy has just been removed from the list by its detect_death
C10_Witness ==
    /\ hist.removed # 0
    /\ enemy[hist.removed].dead /\ enemy[hist.removed].drops = 1
    /\ ~InList(hist.removed, room_enemies)

\* C11: the detect_death call that finds hp <= 0 on an enemy not yet dead sets
\* dead, clears can_move, zeroes the velocity and puts the animation frame at 0;
\* a detect_death call on an enemy already dead leaves these four fields and
\* the animation frame as they are; and dead never returns to False.
C11_DeathFlaggedOnce ==
    [][/\ \A e \in EnemyIds : enemy[e].dead => enemy'[e].dead
       /\ (wpc = "eupdate" /\ enemy[ecur].hp <= 0 /\ ~enemy[ecur].dead)
             => /\ enemy'[ecur].dead /\ ~enemy'[ecur].can_move
                /\ enemy'[ecur].velocity = <<0, 0>>
                /\ enemy'[ecur].animation_frame = 0
       /\ (wpc = "eupdate" /\ enemy[ecur].dead)
             => /\ enemy'[ecur].animation_frame = enemy[ecur].animation_frame
                /\ enemy'[ecur].can_move = enemy[ecur].can_move
                /\ enemy'[ecur].velocity = enemy[ecur].velocity
       /\ (wpc = "eupdate" /\ enemy[ecur].hp > 0 /\ ~enemy[ecur].dead)
             => ~enemy'[ecur].dead]_vars

\* detect_death has just run on an enemy that was dead already, whose death
\* animation had advanced, and has kept the animation frame
C11_Witness ==
    /\ wpc = "eanim" /\ hist.death = "already"
    /\ enemy[ecur].dead /\ enemy[ecur].hp <= 0
    /\ enemy[ecur].animation_frame > 0

\* C12: in every frame the categories are updated in the order enemies, objects,
\* player, bullets, world, a pass being over before the next one starts; so
\* while the bullet pass runs, the enemies, the objects and the player have been
\* updated in this frame and the world has not, and no bullet is updated while
\* any other pass runs.
C12_FrameOrder ==
    /\ [](/\ (pc # "idle" \/ wpc = "bullets") <=> (done = <<"enemies", "objects", "player">>)
          /\ wpc \in {"eloop", "eupdate", "eanim"} => done = <<>>
          /\ wpc = "objects" <=> done = <<"enemies">>
          /\ wpc = "player" <=> done = <<"enemies", "objects">>
          /\ wpc = "world" <=> done = <<"enemies", "objects", "player", "bullets">>)
    /\ [][/\ enemy'[1].animation_frame # enemy[1].animation_frame => done = <<>>
          /\ swing' # swing => done = <<"enemies", "objects">>
          /\ bullet' # bullet /\ next_id' = next_id
                => done = <<"enemies", "objects", "player">>
          /\ switch_room' # switch_room
                => done = <<"enemies", "objects", "player", "bullets">>]_vars

\* in the second frame a bullet is being checked for a parry against the player
\* whose swing this frame's player pass has just advanced
C12_Witness ==
    /\ pc = "bounce" /\ now = 1
    /\ done = <<"enemies", "objects", "player">>
    /\ player.attacking /\ swing.counter >= 1

\* C13: while a bullet that has not been reflected (bounce_back True) is
\* updated, no enemy's hp changes, and its enemy scan leaves the bullets list
\* as it is, whatever enemy hitboxes the bullet overlaps.
C13_UnreflectedSparesEnemies ==
    [][(pc \in {"move", "enemy", "player", "bounce", "bounds", "wall"}
          /\ bullet[cur].bounce_back)
         => /\ \A e \in EnemyIds : enemy'[e].hp = enemy[e].hp
            /\ pc = "enemy" => bullets' = bullets]_vars

\* the enemy scan has just run for an unreflected bullet lying on an enemy's
\* hitbox: the bullet is still listed and the enemy has its full hp
C13_Witness ==
    /\ pc = "player" /\ last.op = "enemy_scan" /\ last.pre_bb
    /\ InList(cur, bullets)
    /\ \E e \in EnemyIds :
          /\ colliderect(BulletRect(bullet[cur]), EnemyHitbox(e))
          /\ enemy[e].hp = EnemyHp

\* C14: the enemy scan of a reflected bullet that overlaps some enemy takes
\* bullet.damage from the hp of the first overlapping enemy in enemy_list order,
\* changes no other enemy, and removes the bullet; no other step of the update
\* changes an enemy.
C14_OneEnemyPerUpdate ==
    [][/\ (pc = "enemy" /\ ~bullet[cur].bounce_back
           /\ \E k \in 1 .. Len(enemy_list) :
                 colliderect(BulletRect(bullet[cur]), EnemyHitbox(enemy_list[k])))
          => /\ \E k \in 1 .. Len(enemy_list) :
                   /\ colliderect(BulletRect(bullet[cur]), EnemyHitbox(enemy_list[k]))
                   /\ \A m \in 1 .. (k - 1) :
                          ~colliderect(BulletRect(bullet[cur]), EnemyHitbox(enemy_list[m]))
                   /\ enemy' = [enemy EXCEPT ![enemy_list[k]].hp = @ - bullet[cur].damage]
             /\ ~InList(cur, bullets')
       /\ pc # "enemy" => enemy' = enemy]_vars

\* a reflected bullet lying on both enemies' hitboxes has just hit: the first
\* enemy of the list lost the damage, the second lost nothing, the bullet is gone
C14_Witness ==
    /\ pc = "player" /\ last.op = "enemy_scan" /\ last.hit /\ ~last.pre_bb
    /\ \A e \in EnemyIds : colliderect(BulletRect(bullet[cur]), EnemyHitbox(e))
    /\ enemy_list = <<1, 2>>
    /\ enemy[1].hp = EnemyHp - bullet[cur].damage
    /\ enemy[2].hp = EnemyHp
    /\ ~InList(cur, bullets)

\* C15 as stated: a MachineGunBullet keeps bounce_back, dir and speed, no enemy
\* changes during its update, and it leaves the bullets list only in the player,
\* bounds or wall step of its own update.
C15_Original ==
    [][\A b \in BulletIds :
          (bullet[b].made /\ bullet[b].kind = "mg")
            => /\ bullet'[b].bounce_back
               /\ bullet'[b].dir = bullet[b].dir /\ bullet'[b].speed = bullet[b].speed
               /\ (cur = b /\ pc \in {"move", "player", "bounds", "wall"}) => enemy' = enemy
               /\ (InList(b, bullets) /\ ~InList(b, bullets'))
                     => (cur = b /\ pc \in {"player", "bounds", "wall"})]_vars

\* C15: a MachineGunBullet keeps bounce_back, dir and speed, no enemy changes
\* during its update, and it leaves the bullets list only in the player, bounds
\* or wall step of its own update, or in remove_bullets once its room is not the
\* current room.
C15_MachineGunBullet ==
    [][\A b \in BulletIds :
          (bullet[b].made /\ bullet[b].kind = "mg")
            => /\ bullet'[b].bounce_back
               /\ bullet'[b].dir = bullet[b].dir /\ bullet'[b].speed = bullet[b].speed
               /\ (cur = b /\ pc \in {"move", "player", "bounds", "wall"}) => enemy' = enemy
               /\ (InList(b, bullets) /\ ~InList(b, bullets'))
                     => \/ cur = b /\ pc = "player"
                           /\ colliderect(BulletRect(bullet[b]), PlayerHitbox)
                        \/ cur = b /\ pc = "bounds"
                        \/ cur = b /\ pc = "wall"
                        \/ pc = "idle" /\ bullet[b].room # current_room]_vars

\* a MachineGunBullet has gone through a whole update while the player was
\* swinging a weapon, and is still listed and unreflected
C15_Witness ==
    /\ pc = "next" /\ cur # 0
    /\ bullet[cur].kind = "mg" /\ bullet[cur].bounce_back
    /\ last.op = "wall_collision" /\ InList(cur, bullets)
    /\ player.attacking /\ player.weapon # "none"

\* C16: while switch_room is true, player_collision changes nothing of the
\* player (hp, shield, hurt flag, hurt timer) and leaves the bullets list as it
\* is, whether or not the bullet overlaps the player's hitbox.
C16_NoHitDuringTransition ==
    [][(pc = "player" /\ switch_room) => (player' = player /\ bullets' = bullets)]_vars

\* player_collision has just run, during a room transition, for a bullet lying
\* on the player's hitbox: the bullet is still listed, the player untouched
C16_Witness ==
    /\ last.op = "player_collision" /\ switch_room
    /\ colliderect(BulletRect(bullet[cur]), PlayerHitbox)
    /\ last.pre_in /\ InList(cur, bullets)
    /\ player.hp = PlayerHp /\ ~player.hurt

\* C17: bounce() reflects the bullet exactly when the player holds a weapon, is
\* attacking, the weapon's mask overlaps the bullet and bounce_back is True;
\* otherwise it leaves dir, speed and bounce_back as they are; and bounce_back
\* falls only in such a bounce() of that bullet.
C17_ParryConditions ==
    [][/\ pc = "bounce"
            => IF /\ player.weapon # "none" /\ player.attacking
                  /\ last'.hit /\ bullet[cur].bounce_back
               THEN ~bullet'[cur].bounce_back
               ELSE bullet' = bullet
       /\ \A b \in BulletIds :
             (bullet[b].made /\ bullet[b].bounce_back /\ ~bullet'[b].bounce_back)
               => /\ pc = "bounce" /\ cur = b
                  /\ player.weapon # "none" /\ player.attacking /\ last'.hit]_vars

\* bounce() has just run for an unreflected bullet under the mask of the weapon
\* of a player who is not attacking: the bullet is still unreflected
C17_Witness ==
    /\ last.op = "bounce" /\ last.hit /\ last.pre_bb
    /\ player.weapon # "none" /\ ~player.attacking
    /\ bullet[cur].bounce_back

C19_KillIsIdempotent ==
    [][(pc \in {"move", "enemy", "player", "bounce", "bounds", "wall"})
         => (LET Other(b) == b # cur
             IN  /\ bullets' \in {bullets, SelectSeq(bullets, Other)}
                 /\ ~InList(cur, bullets) => bullets' = bullets)]_vars

\* the wall step has just asked for the removal of a bullet that the player
\* step of the same update had already removed, while another bullet is listed
C19_Witness ==
    /\ last.op = "wall_collision" /\ last.hit /\ ~last.pre_in
    /\ colliderect(BulletRect(bullet[cur]), PlayerHitbox)
    /\ ~InList(cur, bullets) /\ Len(bullets) >= 1

\* C20: the dir of a bullet constructed for a target other than its spawn
\* position has length 1 within 0.01, and points from the spawn position to
\* the target (for a BossBullet with a rotation: along that vector rotated by
\* the rotation) within the same precision.
C20_UnitDirection ==
    (aim.kind # "none" /\ <<aim.x, aim.y>> # aim.target)
      => LET d == bullet[1].dir
             vx == aim.target[1] - aim.x
             vy == aim.target[2] - aim.y
             r == IF aim.kind = "boss" THEN aim.rotation ELSE 0
             wx == vx * Cos10k(r) - vy * Sin10k(r)
             wy == vx * Sin10k(r) + vy * Cos10k(r)
         IN  /\ d[1] * d[1] + d[2] * d[2] >= 99 * 99
             /\ d[1] * d[1] + d[2] * d[2] <= 101 * 101
             /\ d[1] * wx + d[2] * wy > 0
             /\ Abs(d[1] * wy - d[2] * wx) <= 10000 * (Abs(vx) + Abs(vy))

\* a BossBullet has been constructed with a rotation of 45 degrees for a target
\* that is neither level with nor straight above or below the spawn position
C20_Witness ==
    /\ aim.kind = "boss" /\ aim.rotation = 45
    /\ aim.target[1] # aim.x /\ aim.target[2] # aim.y
    /\ bullet[1].made /\ bullet[1].dir # <<0, 0>>

\* C21: constructing a bullet whose target is its spawn position raises the
\* division error of calculate_dir: no bullet object is made and the bullets
\* list stays as it was; a construction for any other target does not raise.
C21_DegenerateDirectionRaises ==
    aim.kind # "none"
      => /\ aim.raised <=> (aim.target = <<aim.x, aim.y>>)
         /\ aim.raised => (bullets = <<>> /\ next_id = 1
                            /\ \A b \in BulletIds : ~bullet[b].made)

\* a BossBullet has been asked for with its target on its spawn position
C21_Witness ==
    /\ aim.kind = "boss" /\ aim.target = <<aim.x, aim.y>>
    /\ aim.raised /\ bullets = <<>>

(***************************************************************************)
(* Claims on the bounce of a dropped object                                *)
(***************************************************************************)
\* the position handed to Bounce.bounce lies beyond one of its four limits
Crossing(b) ==
    \/ b.y > b.limit
    \/ b.y > (FloorY - b.size) * 10000
    \/ b.x < LeftX * 10000
    \/ b.x > (RightX - b.size) * 10000

\* C22 as stated: every Bounce.move() leaves the speed lower than it was, and
\* every boundary crossing in Bounce.bounce() leaves it lower than before.
C22_Original ==
    [][/\ (obj.bpc = "move") => Speed2(obj'.bounce) < Speed2(obj.bounce)
       /\ (obj.bpc = "bounce" /\ Crossing(obj.bounce) /\ Speed2(obj.bounce) > 0)
            => Speed2(obj'.bounce) < Speed2(obj.bounce)]_vars

\* C22: a Bounce.move() leaves the speed lower than it was whenever the upward
\* part of the velocity is at least half of gravity (the body is rising), and
\* every boundary crossing in Bounce.bounce() of a moving body leaves the speed
\* lower than it was before the bounce.
C22_SpeedDecay ==
    [][/\ (obj.bpc = "move" /\ 2 * obj.bounce.v[2] >= Gravity)
            => Speed2(obj'.bounce) < Speed2(obj.bounce)
       /\ (obj.bpc = "bounce" /\ Crossing(obj.bounce) /\ Speed2(obj.bounce) > 0)
            => Speed2(obj'.bounce) < Speed2(obj.bounce)]_vars

\* bounce() has just reflected a falling body at its limit and the speed it
\* left is lower than the speed it found
C22_Witness ==
    /\ obj.steps > 0 /\ obj.bpc \in {"move", "rect"}
    /\ obj.prev.y > obj.prev.limit /\ obj.prev.v[2] < 0
    /\ Speed2(obj.bounce) < Speed2(obj.prev)

\* C23: after every move() and bounce() sub-step the stored y is at most limit.
C23_BelowLimit ==
    (obj.steps > 0 /\ obj.bpc # "bounce") => obj.bounce.y <= obj.bounce.limit

\* move() had carried the body below its limit line and bounce() has put it
\* back above the line
C23_Witness ==
    /\ obj.steps > 0 /\ obj.bpc \in {"move", "rect"}
    /\ obj.prev.y > obj.prev.limit
    /\ obj.bounce.y < obj.bounce.limit

\* C24: an update_bounce call that finds the speed below 0.004 clears dropped
\* and resets the bounce to a fresh launch (speed 0.5, elasticity 0.75, a new
\* angle of 10 or -10) without moving the object; while dropped is False the
\* integrator makes no step and the position stays as it is.
C24_SettleResets ==
    [][/\ (obj.bpc = "idle" /\ obj.bounce.made /\ obj'.calls = obj.calls + 1
            /\ Speed2(obj.bounce) < SettleSpeed * SettleSpeed)
            => /\ ~obj'.dropped
               /\ obj'.bounce.v \in {Polar(ResetSpeed, 100), Polar(ResetSpeed, -100)}
               /\ obj'.bounce.elasticity = ResetElasticity
               /\ obj'.bounce.x = obj.bounce.x /\ obj'.bounce.y = obj.bounce.y
               /\ obj'.rect = obj.rect
               /\ obj'.bpc = "idle"
       /\ (obj.bounce.made /\ ~obj.dropped)
            => /\ obj'.steps = obj.steps
               /\ obj'.bounce = obj.bounce
               /\ obj'.rect = obj.rect
               /\ ~obj'.dropped]_vars

\* a dropped object has bounced, has settled, and update_bounce has been called
\* on it again since
C24_Witness ==
    /\ obj.steps > 0 /\ obj.settled > 0 /\ obj.calls > obj.settled + 1
    /\ ~obj.dropped /\ Speed2(obj.bounce) >= SettleSpeed * SettleSpeed

(***************************************************************************)
(* Claims on Entity.wall_collision                                         *)
(***************************************************************************)
\* C25: Entity.wall_collision sets the velocity to [0, 0] exactly when the
\* bottom-center, bottom-left or bottom-right point of the hitbox displaced by
\* the velocity lies inside some wall hitbox, leaves the velocity as it was
\* otherwise, and never changes rect or hitbox.
C25_WallStopsEntity ==
    [][(entity.epc = "wall")
        => (LET x == entity.hitbox.x + entity.velocity[1]
                y == entity.hitbox.y + entity.velocity[2]
                points == {<<x + (entity.hitbox.w \div 2), y + entity.hitbox.h>>,
                           <<x, y + entity.hitbox.h>>,
                           <<x + entity.hitbox.w, y + entity.hitbox.h>>}
                inside == \E k \in 1 .. Len(WallList) : \E q \in points :
                              /\ WallList[k].x <= q[1] /\ q[1] < WallList[k].x + WallList[k].w
                              /\ WallList[k].y <= q[2] /\ q[2] < WallList[k].y + WallList[k].h
            IN  /\ entity'.velocity = IF inside THEN <<0, 0>> ELSE entity.velocity
                /\ entity'.rect = entity.rect
                /\ entity'.hitbox = entity.hitbox)]_vars

\* wall_collision has just stopped an entity that was about to step into a wall
\* its hitbox does not touch yet
C25_Witness ==
    /\ entity.walled /\ entity.pre # <<0, 0>> /\ entity.velocity = <<0, 0>>
    /\ ~HitsWall(entity.hitbox)

(***************************************************************************)
(* Claims on Weapon.enemy_collision and Weapon.player_update               *)
(***************************************************************************)
\* C26: enemy_collision changes nothing on an enemy that is dead or whose
\* weapon cooldown has not elapsed (hp, hurt, hurt timer and cooldown stay and
\* special_effect is not invoked for it); on every other enemy of the list
\* that the weapon overlaps it invokes special_effect, sets hurt and sets the
\* hurt timer and the cooldown to the current tick.
C26_GuardsOfEnemyCollision ==
    [][(wpc = "player")
        => \A e \in EnemyIds :
             LET spared == enemy[e].dead \/ ~(now - enemy[e].weapon_hurt_cooldown > HitCooldown)
                 struck == /\ hist'.mode = "swing" /\ e \in overlap'
                           /\ \E k \in 1 .. Len(enemy_list) : enemy_list[k] = e
             IN  /\ spared => /\ enemy'[e] = enemy[e]
                              /\ hist'.total[e] = hist.total[e]
                              /\ SlashSum(damage_enemies', e) = SlashSum(damage_enemies, e)
                 /\ (struck /\ ~spared)
                      => /\ enemy'[e].hurt
                         /\ enemy'[e].hurt_timer = now
                         /\ enemy'[e].weapon_hurt_cooldown = now
                         /\ hist'.total[e] = hist.total[e] + 1
                         /\ SlashSum(damage_enemies', e) = SlashSum(damage_enemies, e) + 1]_vars

\* the swung weapon has overlapped a dead enemy of the list, which kept its
\* fields, and a living one, which it has struck in the same call
C26_Witness ==
    /\ wpc = "input" /\ hist.mode = "swing"
    /\ \E e, f \in overlap :
          /\ \E k \in 1 .. Len(enemy_list) : enemy_list[k] = e
          /\ enemy[e].dead /\ enemy[e].weapon_hurt_cooldown < now - 1
          /\ ~enemy[f].dead /\ enemy[f].weapon_hurt_cooldown = now - 1

\* C27: a hit by a plain Weapon (not a Katana) completes without an error:
\* no enemy_collision of a plain Weapon that overlaps enemies ends in an
\* exception (and the hit lowers hp by weapon.damage * player.strength).
C27_GenericWeaponHit ==
    (player.weapon = "weapon" /\ overlap # {}) => hist.mode # "raised"

\* C28: every player_update performs exactly one of swing() and rotate();
\* enemy_collision runs only in a call in which swing() ran; and a call made
\* while player.attacking is False changes no enemy's hp, hurt flag or cooldown.
C28_SwingOrRotate ==
    [][(wpc = "player")
        => (LET c0 == IF swing.counter = SwingFrames THEN 0 ELSE swing.counter
                swung == swing'.counter = c0 + 1
                rotated == swing'.counter = c0
                           /\ \E d \in PointerDirs :
                                 swing'.angle = RotateAngle(swing.swing_side, d)
            IN  /\ hist'.mode = "swing" => (swung /\ ~rotated)
                /\ hist'.mode = "rotate" => (rotated /\ ~swung)
                /\ hist'.mode \in {"swing", "rotate"}
                /\ (enemy' # enemy \/ damage_enemies' # damage_enemies
                      \/ hist'.total # hist.total) => hist'.mode = "swing"
                /\ ~player.attacking => (enemy' = enemy /\ hist'.mode = "rotate"))]_vars

\* the weapon follows the pointer again after a swing in which it struck an
\* enemy, with the attack over
C28_Witness ==
    /\ wpc = "input" /\ hist.mode = "rotate" /\ ~player.attacking
    /\ hist.swings >= 1
    /\ \E e \in EnemyIds : hist.total[e] > 0

(***************************************************************************)
(* Claims on bullets, dead enemies and the bullet list                     *)
(***************************************************************************)
\* C29: a reflected bullet is tested against live enemies only: the scan of a
\* bullet never lowers the hp of a dead-flagged enemy, and it removes the
\* bullet only when it has lowered the hp of a living one.
C29_DeadEnemiesIgnored ==
    [][(pc = "enemy")
        => /\ \A e \in EnemyIds : enemy[e].dead => enemy'[e].hp = enemy[e].hp
           /\ bullets' # bullets
                => \E e \in EnemyIds : ~enemy[e].dead /\ enemy'[e].hp < enemy[e].hp]_vars

\* C30: after remove_bullets no bullet whose room is not the current room is
\* left in the list, for every number and order of such bullets.
C30_NoForeignBulletLeft ==
    [][(pc = "idle" /\ pc' = "next")
        => \A k \in 1 .. Len(bullets') : bullet[bullets'[k]].room = current_room]_vars

(***************************************************************************)
(* Claims on chests                                                        *)
(***************************************************************************)
\* C31: one Chest.drop_items call on a chest holding n items moves the items
\* at the 1st, 3rd, 5th, ... place of the list (ceil(n/2) of them) into
\* room.objects, in that order, with dropped set and a bounce activated, and
\* leaves the floor(n/2) items at the 2nd, 4th, ... place in chest.items.
C31_EveryOtherItem ==
    [][(chest.made /\ chest.open /\ chest.animation_frame > LastFrame)
        => (LET n == Len(chest.items)
                moved == [k \in 1 .. ((n + 1) \div 2) |-> chest.items[2 * k - 1]]
                kept == [k \in 1 .. (n \div 2) |-> chest.items[2 * k]]
            IN  /\ chest'.items = kept
                /\ chest'.room_objects = chest.room_objects \o moved
                /\ chest'.dropped = chest.dropped \cup {moved[k] : k \in 1 .. Len(moved)})]_vars

\* a first drop_items call has left items in a chest that held an odd number
C31_Witness ==
    /\ chest.drops = 1 /\ chest.held % 2 = 1
    /\ Len(chest.items) = chest.held \div 2
    /\ Len(chest.room_objects) = chest.held \div 2 + 1

\* C32: once an opened chest's animation has passed its last frame, eventually
\* chest.items is empty and room.objects holds every item the chest held
\* exactly once.
C32_AllItemsDropped ==
    (chest.made /\ chest.open /\ chest.animation_frame > LastFrame)
      ~> /\ chest.items = <<>>
         /\ Len(chest.room_objects) = chest.held
         /\ \A item \in 1 .. chest.held :
               \E k \in 1 .. chest.held : chest.room_objects[k] = item

\* the chest is empty after more than one drop_items call
C32_Witness ==
    /\ chest.made /\ chest.held > 0 /\ chest.items = <<>> /\ chest.drops > 1
    /\ Len(chest.room_objects) = chest.held

(***************************************************************************)
(* Claims on purchases, flasks and the shield                              *)
(***************************************************************************)
RECURSIVE SumValues(_)
SumValues(set) ==
    IF set = {} THEN 0
    ELSE LET o == CHOOSE x \in set : TRUE
         IN  objects.heap[o].value + SumValues(set \ {o})

\* the objects of a list
Members(list) == {list[k] : k \in 1 .. Len(list)}

\* the goods for sale that the player touches when ObjectManager.interact runs
Asked == {o \in Members(objects.current_objects) :
             objects.heap[o].interaction /\ objects.heap[o].for_sale}

\* C33: Object.buy succeeds only when player.gold >= value: gold goes down by
\* exactly the value, interact() runs (the object leaves its room) and
\* for_sale becomes False; a refused purchase leaves gold, for_sale and the
\* room's list alone; player.gold is never negative.
C33_BuyNeedsGold ==
    /\ [](player.gold >= 0)
    /\ [][(objects.made /\ objects.fresh /\ ~objects'.fresh)
           => /\ objects'.bought \cup objects'.refused = Asked
              /\ objects'.bought \cap objects'.refused = {}
              /\ player'.gold = player.gold - SumValues(objects'.bought)
              /\ \A o \in objects'.bought :
                    /\ objects.heap[o].value <= player.gold
                    /\ ~objects'.heap[o].for_sale
                    /\ ~InList(o, objects'.rooms[objects.heap[o].room])
              /\ \A o \in objects'.refused :
                    /\ objects.heap[o].value > player'.gold
                    /\ objects'.heap[o].for_sale
                    /\ InList(o, objects'.rooms[objects.heap[o].room])
              /\ (\A o \in Members(objects.current_objects) :
                     objects.heap[o].interaction => o \in objects'.refused)
                    => (player' = player /\ objects'.rooms = objects.rooms)]_vars

\* one ObjectManager.interact call has sold one object and refused another
C33_Witness ==
    /\ objects.made /\ ~objects.fresh
    /\ objects.bought # {} /\ objects.refused # {}
    /\ player.gold = 0

\* the objects that leave room 1 in a step
Taken == {o \in Members(objects.rooms[1]) : ~InList(o, objects'.rooms[1])}

\* C34: GreenFlask.apply_effect sets hp to min(hp + 20, max_hp) and leaves
\* max_hp, RedFlask.apply_effect raises hp and max_hp by 20, and
\* hp <= max_hp holds after any sequence of flask effects and bullet hits.
C34_HealingBelowMax ==
    /\ [](player.hp <= player.max_hp)
    /\ [][(objects.made /\ Cardinality(Taken) = 1)
           => (LET o == CHOOSE x \in Taken : TRUE
               IN  /\ objects.heap[o].kind = "green"
                        => /\ player'.hp = (IF player.hp + 20 <= player.max_hp
                                            THEN player.hp + 20 ELSE player.max_hp)
                           /\ player'.max_hp = player.max_hp
                   /\ objects.heap[o].kind = "red"
                        => /\ player'.hp = player.hp + 20
                           /\ player'.max_hp = player.max_hp + 20)]_vars

\* a green flask was drunk, a red flask bought, and one bullet has cost hp
C34_Witness ==
    /\ objects.made
    /\ ~InList(4, objects.rooms[1]) /\ ~InList(2, objects.rooms[1])
    /\ player.max_hp = PlayerHp + 20
    /\ player.hp = player.max_hp - 10

\* C39: player.shield is never negative: a ShieldPowerUp adds one, a bullet
\* hit takes one away only from a shield of at least one, and a bullet hit
\* lowers hp only when the shield is 0.
C39_ShieldNeverNegative ==
    /\ [](player.shield >= 0)
    /\ [][(player'.hp < player.hp) => (player.shield = 0 /\ player'.shield = 0)]_vars
    /\ [][(player'.shield < player.shield)
           => (player.shield >= 1 /\ player'.shield = player.shield - 1
               /\ player'.hp = player.hp)]_vars
    /\ [][(objects.made /\ Taken # {} /\ \A o \in Taken : objects.heap[o].kind = "shield")
           => (player'.shield = player.shield + Cardinality(Taken)
               /\ player'.hp = player.hp)]_vars

\* a picked-up shield has taken the first bullet and the second has cost hp
C39_Witness ==
    /\ objects.made /\ ~InList(5, objects.rooms[1])
    /\ player.shield = 0 /\ player.hp = PlayerHp - 10
    /\ bullets = <<>> /\ now > 0

(***************************************************************************)
(* Claims on the passes over the bullets and the enemies                   *)
(***************************************************************************)
\* the number of places of list that hold x
Times(x, list) == Cardinality({k \in 1 .. Len(list) : list[k] = x})

\* C35: in every BulletManager.update each bullet that is in the collection
\* after remove_bullets has its update() executed exactly once in that tick,
\* even when other bullets are killed during the pass.
C35_EveryBulletUpdated ==
    [][(pc = "next" /\ pc' = "idle")
        => \A b \in Members(tick.start) : Times(b, tick.updated) = 1]_vars

\* C36: in every EnemyManager.update_enemies each enemy that is in the room's
\* enemy_list at the start of the pass has its update() executed exactly once
\* in that tick, even when detect_death removes another enemy during the pass.
C36_EveryEnemyUpdated ==
    [][(wpc = "eloop" /\ wpc' = "player")
        => \A e \in Members(tick.estart) : Times(e, tick.eupdated) = 1]_vars

\* C37: a bullet applies its damage to at most one target over its lifetime:
\* once it has damaged an enemy or the player and has been removed from the
\* collection, it changes no other entity's hp or shield, also not later in
\* the same update call.
C37_OneTargetPerBullet ==
    [][(pc \in {"player", "bounce", "bounds", "wall"} /\ ~InList(cur, bullets))
        => (player'.hp = player.hp /\ player'.shield = player.shield
            /\ \A e \in EnemyIds : enemy'[e].hp = enemy[e].hp)]_vars

\* the katanas of the scenario
Weapons == {o \in ObjIds : objects.heap[o].kind = "katana"}

\* the number of places in the rooms' objects lists that hold o
RECURSIVE TimesInRooms(_, _)
TimesInRooms(o, rooms) ==
    IF rooms = {} THEN 0
    ELSE LET r == CHOOSE x \in rooms : TRUE
         IN  Times(o, objects.rooms[r]) + TimesInRooms(o, rooms \ {r})

\* C38: a weapon is never held and lying in a room at once: after any sequence
\* of Weapon.interact (through ObjectManager.interact, for objects of the
\* current room and of next_room) and Weapon.drop calls, a weapon is in
\* player.items exactly when it is in no room's objects list, and it is at
\* most once in either list.
C38_HeldOrLying ==
    objects.made
      => \A w \in Weapons :
            /\ InList(w, objects.items) <=> TimesInRooms(w, Rooms) = 0
            /\ Times(w, objects.items) <= 1
            /\ TimesInRooms(w, Rooms) <= 1

====
